---- MODULE Spec2Model ----
(***************************************************************************)
(* Model of the Xilinx UltraScale GEM DMA adapter of FreeRTOS+TCP          *)
(* (x_emacpsif_dma.c): the TX descriptor ring with its credit semaphore,   *)
(* the RX descriptor ring with in-place buffer replacement, the two        *)
(* interrupt handlers, and the MAC's DMA engine as the environment.        *)
(*                                                                         *)
(* Every driver function is one action that runs from entry to return.     *)
(* A network buffer descriptor is a number 1..NBuf (NULL is 0); its        *)
(* payload pointer is PayloadOf(b).  A 32-bit TX status word is kept as a  *)
(* record of its fields; an RX address word is kept as a number whose two  *)
(* low bits are NEW and WRAP.                                              *)
(***************************************************************************)
EXTENDS Integers, Sequences, FiniteSets, TLC

(* ---------------------------------------------------------------------- *)
(* Sizes                                                                   *)
(* ---------------------------------------------------------------------- *)

\* ipconfigNIC_N_TX_DESC: number of TX descriptors.
N_TX == 2

\* ipconfigNIC_N_RX_DESC: number of RX descriptors.
N_RX == 2

\* Network buffers in the system: one per RX slot, one per TX slot, one spare.
NBuf == N_TX + N_RX + 1

Buffers == 1..NBuf

NULL == 0

\* ipBUFFER_PADDING: bytes in front of the Ethernet header of a buffer.
ipBUFFER_PADDING == 10

ipconfigPACKET_FILLER_SIZE == 2

\* dmaRX_TX_BUFFER_SIZE without jumbo frames.
dmaRX_TX_BUFFER_SIZE == 1536 - ipBUFFER_PADDING

\* sizeof( struct xARP_PACKET ): Ethernet header (14) + ARP header (28).
SizeofARPPacket == 42

\* pxBuffer->pucEthernetBuffer: the storage of buffer b, 2048 bytes apart and
\* 8-byte aligned, plus the padding.
PayloadOf(b) == b * 2048 + ipBUFFER_PADDING

\* pxPacketBuffer_to_NetworkBuffer: the descriptor that encloses a payload.
pxPacketBuffer_to_NetworkBuffer(pv) ==
    IF \E b \in Buffers : PayloadOf(b) = pv
    THEN CHOOSE b \in Buffers : PayloadOf(b) = pv
    ELSE NULL

(* ---------------------------------------------------------------------- *)
(* Descriptor words                                                        *)
(* ---------------------------------------------------------------------- *)

\* XEMACPS_TXBUF_LEN_MASK 0x00003FFF: the length field of a TX status word.
TxLenField == 16384

\* XEMACPS_RXBUF_LEN_MASK 0x00001FFF: the length field of an RX status word.
RxLenField == 8192

\* A TX status word: USED (bit 31), WRAP (bit 30), LAST (bit 15), length.
TxWord(used, wrap, last, len) ==
    [USED |-> used, WRAP |-> wrap, LAST |-> last, LEN |-> len]

\* XEMACPS_RXBUF_NEW_MASK 0x00000001 of an RX address word.
RxNew(addr) == addr % 2 = 1

\* XEMACPS_RXBUF_WRAP_MASK 0x00000002 of an RX address word.
RxWrap(addr) == (addr \div 2) % 2 = 1

\* addr & XEMACPS_RXBUF_ADD_MASK (0xFFFFFFFC).
RxAddrField(addr) == addr - (addr % 4)

XEMACPS_RXBUF_WRAP_MASK == 2

XEMACPS_RXBUF_NEW_MASK == 1

(* ---------------------------------------------------------------------- *)
(* Received frames and the accept-filter                                   *)
(* ---------------------------------------------------------------------- *)

\* Bitwise AND of two naturals.
RECURSIVE BitAnd(_, _)
BitAnd(a, b) ==
    IF a = 0 \/ b = 0 THEN 0
    ELSE (a % 2) * (b % 2) + 2 * BitAnd(a \div 2, b \div 2)

\* FreeRTOS_ntohs on a little-endian target: swap the two bytes.
FreeRTOS_ntohs(x) == (x % 256) * 256 + (x \div 256)

\* EtherType values as the little-endian CPU reads them from the frame.
ipARP_FRAME_TYPE == 1544

ipIPv4_FRAME_TYPE == 8

ipIPv6_FRAME_TYPE == 56710

\* ipFRAGMENT_OFFSET_BIT_MASK (0xff1f): the 13 offset bits, byte-swapped.
ipFRAGMENT_OFFSET_BIT_MASK == 65311

ipPROTOCOL_UDP == 17

ipLLMNR_PORT == 5355

ipNBNS_PORT == 137

ipDNS_PORT == 53

\* UDP ports (host order) that have a socket bound in the stack.
BoundUDPPorts == {7}

\* xPortHasUDPSocket takes the port in network byte order.
xPortHasUDPSocket(usPortNr) == FreeRTOS_ntohs(usPortNr) \in BoundUDPPorts

\* The header fields of a frame that the filter reads, as stored in memory.
Hdr(ft, frag, vhl, proto, sport, dport) ==
    [usFrameType |-> ft, usFragmentOffset |-> frag,
     ucVersionHeaderLength |-> vhl, ucProtocol |-> proto,
     usSourcePort |-> sport, usDestinationPort |-> dport]

\* A filter that does not look at the version/header-length byte.
xMayAcceptPacket_AnyHeaderLength(pkt) ==
    IF pkt.usFrameType = ipARP_FRAME_TYPE THEN TRUE
    ELSE IF pkt.usFrameType = ipIPv6_FRAME_TYPE THEN TRUE
    ELSE IF pkt.usFrameType # ipIPv4_FRAME_TYPE THEN FALSE
    ELSE IF BitAnd(pkt.usFragmentOffset, ipFRAGMENT_OFFSET_BIT_MASK) # 0 THEN FALSE
    ELSE IF pkt.ucProtocol = ipPROTOCOL_UDP THEN
        LET usSourcePort == FreeRTOS_ntohs(pkt.usSourcePort)
            usDestinationPort == FreeRTOS_ntohs(pkt.usDestinationPort)
        IN  ~ ( /\ ~xPortHasUDPSocket(pkt.usDestinationPort)
                /\ usDestinationPort # ipLLMNR_PORT
                /\ usSourcePort # ipLLMNR_PORT
                /\ usDestinationPort # ipNBNS_PORT
                /\ usSourcePort # ipNBNS_PORT
                /\ usSourcePort # ipDNS_PORT )
    ELSE TRUE

\* xMayAcceptPacket, built with ipconfigETHERNET_DRIVER_FILTERS_PACKETS,
\* ipconfigUSE_LLMNR, ipconfigUSE_NBNS and ipconfigUSE_DNS all enabled.
xMayAcceptPacket(pkt) ==
    IF pkt.usFrameType = ipARP_FRAME_TYPE THEN TRUE
    ELSE IF pkt.usFrameType = ipIPv6_FRAME_TYPE THEN TRUE
    ELSE IF pkt.usFrameType # ipIPv4_FRAME_TYPE THEN FALSE
    ELSE IF BitAnd(pkt.usFragmentOffset, ipFRAGMENT_OFFSET_BIT_MASK) # 0 THEN FALSE
    ELSE IF pkt.ucVersionHeaderLength < 69 \/ pkt.ucVersionHeaderLength > 79 THEN FALSE
    ELSE IF pkt.ucProtocol = ipPROTOCOL_UDP THEN
        LET usSourcePort == FreeRTOS_ntohs(pkt.usSourcePort)
            usDestinationPort == FreeRTOS_ntohs(pkt.usDestinationPort)
        IN  ~ ( /\ ~xPortHasUDPSocket(pkt.usDestinationPort)
                /\ usDestinationPort # ipLLMNR_PORT
                /\ usSourcePort # ipLLMNR_PORT
                /\ usDestinationPort # ipNBNS_PORT
                /\ usSourcePort # ipNBNS_PORT
                /\ usSourcePort # ipDNS_PORT )
    ELSE TRUE

\* Memory of a buffer the DMA has not written a frame into.
NoFrame == Hdr(0, 0, 0, 0, 0, 0)

\* The frames the wire delivers in this model: an ARP frame, a UDP datagram
\* to a bound port, and a UDP datagram to a port nobody listens on.
FrameARP == [hdr |-> Hdr(ipARP_FRAME_TYPE, 0, 0, 0, 0, 0), len |-> 60]

FrameUDPBound ==
    [hdr |-> Hdr(ipIPv4_FRAME_TYPE, 0, 69, ipPROTOCOL_UDP,
                 FreeRTOS_ntohs(4000), FreeRTOS_ntohs(7)), len |-> 100]

FrameUDPUnbound ==
    [hdr |-> Hdr(ipIPv4_FRAME_TYPE, 0, 69, ipPROTOCOL_UDP,
                 FreeRTOS_ntohs(4000), FreeRTOS_ntohs(9)), len |-> 80]

RxFrames == {FrameARP, FrameUDPBound, FrameUDPUnbound}

\* The frames of the runs in which both rings work at once.
FewRxFrames == {FrameARP}

\* The lengths the stack asks to transmit: both limits and their neighbours.
TxLengths == {SizeofARPPacket - 1, SizeofARPPacket,
              dmaRX_TX_BUFFER_SIZE, dmaRX_TX_BUFFER_SIZE + 1}

\* The lengths of the runs in which both rings work at once.
FewTxLengths == {SizeofARPPacket - 1, SizeofARPPacket}

(* ---------------------------------------------------------------------- *)
(* State                                                                   *)
(* ---------------------------------------------------------------------- *)

VARIABLES
    txSegments,             \* xemacpsif->txSegments: [address, flags] per slot
    rxSegments,             \* xemacpsif->rxSegments: [address, flags] per slot
    pxDMA_tx_buffers,       \* payload pointer per TX slot, or NULL
    pxDMA_rx_buffers,       \* network buffer per RX slot, or NULL
    txHead,                 \* xemacpsif->txHead
    txTail,                 \* xemacpsif->txTail
    rxHead,                 \* xemacpsif->rxHead
    xTXDescriptorSemaphore, \* count of the TX credit semaphore
    isr_events,             \* xemacpsif->isr_events, a set of event bits
    txBusy,                 \* xemacpsif->txBusy
    last_rx_frms_cntr,      \* xemacpsif->last_rx_frms_cntr
    nwctrl,                 \* the MAC's network-control register, a set of bits
    rxcnt,                  \* the MAC's frames-received counter (clears on read)
    dmaTxIdx,               \* the TX descriptor the DMA looks at next
    dmaTxActive,            \* the TX DMA is running (not halted on a USED slot)
    dmaRxIdx,               \* the RX descriptor the DMA fills next
    pool,                   \* buffer pool: how many times each buffer is in it
    stack,                  \* buffers the TCP/IP stack holds
    mem,                    \* what each buffer's payload holds
    xDataLength,            \* pxBuffer->xDataLength of each buffer
    last                    \* the call that returned last, and what it did

vars == <<txSegments, rxSegments, pxDMA_tx_buffers, pxDMA_rx_buffers, txHead,
          txTail, rxHead, xTXDescriptorSemaphore, isr_events, txBusy,
          last_rx_frms_cntr, nwctrl, rxcnt, dmaTxIdx, dmaTxActive, dmaRxIdx,
          pool, stack, mem, xDataLength, last>>

txVars == <<txSegments, pxDMA_tx_buffers, txHead, txTail,
            xTXDescriptorSemaphore, txBusy, dmaTxIdx, dmaTxActive>>

rxVars == <<rxSegments, pxDMA_rx_buffers, rxHead, last_rx_frms_cntr, rxcnt,
            dmaRxIdx>>

TxSlots == 0..(N_TX - 1)

RxSlots == 0..(N_RX - 1)

\* What a call leaves in `last`.
Last(op, len, path, ret, batch) ==
    [op |-> op, len |-> len, path |-> path, ret |-> ret, batch |-> batch]

(* ---------------------------------------------------------------------- *)
(* The buffer pool                                                         *)
(* ---------------------------------------------------------------------- *)

\* Buffers of the pool `p` that can be handed out.
Free(p) == {b \in Buffers : p[b] > 0}

\* pxGetNetworkBufferWithDescriptor( size, 0 ): NULL when the pool is empty.
\* Free buffers are interchangeable, so the lowest one is handed out.
pxGetNetworkBufferWithDescriptor(p) ==
    IF Free(p) = {} THEN NULL
    ELSE CHOOSE b \in Free(p) : \A c \in Free(p) : b <= c

\* The pool after buffer b has been taken out of it.
PoolTake(p, b) == [p EXCEPT ![b] = @ - 1]

\* A release that puts the buffer back twice.
vReleaseNetworkBufferAndDescriptor_Twice(p, b) == [p EXCEPT ![b] = @ + 2]

\* vReleaseNetworkBufferAndDescriptor: the pool after b was put back.
vReleaseNetworkBufferAndDescriptor(p, b) == [p EXCEPT ![b] = @ + 1]

(* ---------------------------------------------------------------------- *)
(* Initialisation                                                          *)
(* ---------------------------------------------------------------------- *)

\* clean_dma_txdescs: every TX descriptor USED, WRAP on the last one.
CleanTxSegments ==
    [i \in TxSlots |->
        [address |-> NULL, flags |-> TxWord(TRUE, i = N_TX - 1, FALSE, 0)]]

\* clean_dma_txdescs: every pxDMA_tx_buffers entry NULL.
CleanTxBuffers == [i \in TxSlots |-> NULL]

\* init_dma pre-posts one fresh buffer per RX slot: slot i gets buffer i + 1.
InitRxBuffers == [i \in RxSlots |-> i + 1]

\* init_dma: the masked payload address, WRAP on the last RX descriptor.
InitRxSegments ==
    [i \in RxSlots |->
        [address |-> RxAddrField(PayloadOf(InitRxBuffers[i]))
                        + (IF i = N_RX - 1 THEN XEMACPS_RXBUF_WRAP_MASK ELSE 0),
         flags |-> 0]]

\* The state after init_dma in a system of n network buffers: the RX slots
\* hold the first N_RX of them and the others are in the pool.
InitWith(n) ==
    /\ txSegments = CleanTxSegments
    /\ pxDMA_tx_buffers = CleanTxBuffers
    /\ rxSegments = InitRxSegments
    /\ pxDMA_rx_buffers = InitRxBuffers
    /\ txHead = 0
    /\ txTail = 0
    /\ rxHead = 0
    /\ xTXDescriptorSemaphore = N_TX
    /\ isr_events = {}
    /\ txBusy = FALSE
    /\ last_rx_frms_cntr = 0
    /\ nwctrl = {"RXEN", "TXEN"}
    /\ rxcnt = 0
    /\ dmaTxIdx = 0
    /\ dmaTxActive = FALSE
    /\ dmaRxIdx = 0
    /\ pool = [b \in Buffers |-> IF b > N_RX /\ b <= n THEN 1 ELSE 0]
    /\ stack = {}
    /\ mem = [b \in Buffers |-> NoFrame]
    /\ xDataLength = [b \in Buffers |-> 0]
    /\ last = Last("init", 0, "none", 0, <<>>)

Init == InitWith(NBuf)

(* ---------------------------------------------------------------------- *)
(* TX: emacps_send_message                                                 *)
(* ---------------------------------------------------------------------- *)

\* Releasing a buffer ends the life of what it held: the payload and the
\* length of every buffer that `newPool` holds more often than `oldPool`
\* are blank again.
Scrub(f, oldPool, newPool, blank) ==
    [b \in Buffers |-> IF newPool[b] > oldPool[b] THEN blank ELSE f[b]]

\* A length test that refuses the shortest frame.
xValidLength_Strict(xLength) ==
    xLength > SizeofARPPacket /\ xLength <= dmaRX_TX_BUFFER_SIZE

xValidLength(xLength) ==
    xLength >= SizeofARPPacket /\ xLength <= dmaRX_TX_BUFFER_SIZE

\* A send that does not wait for a credit.
SendPath_NoCredit(xLength, semCount) ==
    IF ~xValidLength(xLength) THEN "badlen" ELSE "publish"

\* The way emacps_send_message takes through its do { } while( 0 ) block:
\* out at the length test, out at xSemaphoreTake (no credit within the
\* 5 s), or through to the end.  semCount is the credit count, with nothing
\* reclaimed while the call waits.
SendPath(xLength, semCount) ==
    IF ~xValidLength(xLength) THEN "badlen"
    ELSE IF semCount = 0 THEN "timeout"
    ELSE "publish"

\* Flags that never carry WRAP.
SendFlags_NoWrap(head, xLength) ==
    TxWord(FALSE, FALSE, TRUE, xLength % TxLenField)

\* ulFlags of the descriptor that publishes a frame at `head`.
SendFlags(head, xLength) ==
    TxWord(FALSE, head = N_TX - 1, TRUE, xLength % TxLenField)

\* An index that wraps one slot late.
NextTxIndex_PastEnd(i) == IF i + 1 > N_TX THEN 0 ELSE i + 1

\* if( ++head == ipconfigNIC_N_TX_DESC ) head = 0;
NextTxIndex(i) == IF i + 1 = N_TX THEN 0 ELSE i + 1

\* A send that releases the buffer whatever happened to it.
ReleaseAfterSend_Always(path) == TRUE

\* iReleaseAfterSend when the block is left (it is true on entry).
ReleaseAfterSend(path) == path # "publish"

\* iHasSent when the block is left.
HasSent(path) == path = "publish"

\* return 0; on every way out.
SendReturn(path) == 0

\* emacps_send_message( xemacpsif, pxBuffer, pdTRUE ) for a buffer whose
\* xDataLength is xLength; p is the pool while the caller holds pxBuffer.
emacps_send_message(pxBuffer, xLength, p) ==
    LET path == SendPath(xLength, xTXDescriptorSemaphore)
        head == txHead
        newPool == IF ReleaseAfterSend(path)
                   THEN vReleaseNetworkBufferAndDescriptor(p, pxBuffer)
                   ELSE p
    IN  /\ IF path = "publish"
           THEN /\ xTXDescriptorSemaphore' = xTXDescriptorSemaphore - 1
                /\ pxDMA_tx_buffers' =
                       [pxDMA_tx_buffers EXCEPT ![head] = PayloadOf(pxBuffer)]
                /\ txSegments' =
                       [txSegments EXCEPT ![head] =
                           [address |-> PayloadOf(pxBuffer),
                            flags |-> SendFlags(head, xLength)]]
                /\ txHead' = NextTxIndex(head)
           ELSE UNCHANGED <<xTXDescriptorSemaphore, pxDMA_tx_buffers,
                            txSegments, txHead>>
        /\ pool' = newPool
        /\ IF HasSent(path)
           THEN /\ txBusy' = TRUE
                /\ nwctrl' = nwctrl \cup {"STARTTX"}
           ELSE UNCHANGED <<txBusy, nwctrl>>
        /\ UNCHANGED <<txTail, isr_events, dmaTxIdx, dmaTxActive, stack, mem,
                       xDataLength>>
        /\ UNCHANGED rxVars

\* The stack takes a buffer from the pool, builds a frame of xLength bytes
\* in it and hands it to the driver.
StackSend(xLength) ==
    LET b == pxGetNetworkBufferWithDescriptor(pool)
    IN  /\ b # NULL
        /\ emacps_send_message(b, xLength, PoolTake(pool, b))

(* ---------------------------------------------------------------------- *)
(* TX: emacps_check_tx                                                     *)
(* ---------------------------------------------------------------------- *)

\* A loop whose break is taken on the full ring instead of the others.
CheckTxContinue_FullStops(uxCount, flags, tail, head) ==
    /\ uxCount > 0
    /\ flags.USED
    /\ ~(tail = head /\ uxCount = N_TX)

\* A loop that does not look at the USED bit.
CheckTxContinue_AnySlot(uxCount, flags, tail, head) ==
    /\ uxCount > 0
    /\ ~(tail = head /\ uxCount # N_TX)

\* The while condition of emacps_check_tx together with the break below it.
CheckTxContinue(uxCount, flags, tail, head) ==
    /\ uxCount > 0
    /\ flags.USED
    /\ ~(tail = head /\ uxCount # N_TX)

\* Flags that are USED alone on every slot, the last one too.
CheckTxFlags_UsedOnly(tail) == TxWord(TRUE, FALSE, FALSE, 0)

\* Flags written as zero, the way the RX side clears its status word.
CheckTxFlags_Zero(tail) == TxWord(FALSE, FALSE, FALSE, 0)

\* Flags that hand the reclaimed descriptor back with USED clear.
CheckTxFlags_Clear(tail) == TxWord(FALSE, tail = N_TX - 1, FALSE, 0)

\* "Clear all but the used and wrap bits."
CheckTxFlags(tail) ==
    IF tail < N_TX - 1 THEN TxWord(TRUE, FALSE, FALSE, 0)
    ELSE TxWord(TRUE, TRUE, FALSE, 0)

\* A give that is lost.
xSemaphoreGive_Lost(count) == count

\* xSemaphoreGive on the counting semaphore, whose maximum is N_TX.
xSemaphoreGive(count) == IF count < N_TX THEN count + 1 ELSE count

\* One pass of the loop body on the loop state st.
CheckTxStep(st) ==
    LET tail == st.tail
        pvBuffer == st.bufs[tail]
        pxBuffer == pxPacketBuffer_to_NetworkBuffer(pvBuffer)
    IN  [tail |-> NextTxIndex(tail),
         uxCount |-> st.uxCount - 1,
         segs |-> [st.segs EXCEPT ![tail].flags = CheckTxFlags(tail)],
         bufs |-> [st.bufs EXCEPT ![tail] = NULL],
         pool |-> IF pvBuffer # NULL /\ pxBuffer # NULL
                  THEN vReleaseNetworkBufferAndDescriptor(st.pool, pxBuffer)
                  ELSE st.pool,
         sem |-> xSemaphoreGive(st.sem),
         n |-> st.n + 1]

RECURSIVE CheckTxLoop(_, _)
CheckTxLoop(st, head) ==
    IF CheckTxContinue(st.uxCount, st.segs[st.tail].flags, st.tail, head)
    THEN CheckTxLoop(CheckTxStep(st), head)
    ELSE st

\* The locals of emacps_check_tx on entry; n counts the slots reclaimed.
CheckTxEntry ==
    [tail |-> txTail,
     uxCount |-> N_TX - xTXDescriptorSemaphore,
     segs |-> txSegments, bufs |-> pxDMA_tx_buffers,
     pool |-> pool, sem |-> xTXDescriptorSemaphore, n |-> 0]

\* emacps_check_tx, called by the driver task, from entry to return.
emacps_check_tx ==
    LET st == CheckTxLoop(CheckTxEntry, txHead)
    IN  /\ txSegments' = st.segs
        /\ pxDMA_tx_buffers' = st.bufs
        /\ txTail' = st.tail
        /\ xTXDescriptorSemaphore' = st.sem
        /\ pool' = st.pool
        /\ mem' = Scrub(mem, pool, st.pool, NoFrame)
        /\ xDataLength' = Scrub(xDataLength, pool, st.pool, 0)
        /\ UNCHANGED <<txHead, txBusy, nwctrl, dmaTxIdx, dmaTxActive, stack,
                       isr_events>>
        /\ UNCHANGED rxVars

(* ---------------------------------------------------------------------- *)
(* TX: the DMA engine and emacps_send_handler                              *)
(* ---------------------------------------------------------------------- *)

\* emacps_send_handler: the TX-done interrupt.
emacps_send_handler ==
    /\ isr_events' = isr_events \cup {"TX"}
    /\ txBusy' = FALSE

\* The descriptor the DMA goes to after slot i: back to 0 after a WRAP
\* descriptor, else the next one (N_TX: past the end of the ring).
DmaNextTx(i, flags) == IF flags.WRAP THEN 0 ELSE i + 1

\* The DMA has work at descriptor i while it finds USED clear there; on a
\* descriptor with USED set (or past the end of the ring) it halts until the
\* next START_TX.
DmaRuns(i, segs) == i \in TxSlots /\ ~segs[i].flags.USED

\* The TX DMA, started by START_TX or still running, sends the frame of its
\* current descriptor, sets USED in it, goes to the next descriptor and
\* raises the TX-done interrupt.  START_TX clears itself.
DmaTxComplete ==
    /\ "STARTTX" \in nwctrl \/ dmaTxActive
    /\ DmaRuns(dmaTxIdx, txSegments)
    /\ txSegments' = [txSegments EXCEPT ![dmaTxIdx].flags.USED = TRUE]
    /\ dmaTxIdx' = DmaNextTx(dmaTxIdx, txSegments[dmaTxIdx].flags)
    /\ dmaTxActive' = DmaRuns(dmaTxIdx', txSegments')
    /\ nwctrl' = nwctrl \ {"STARTTX"}
    /\ emacps_send_handler
    /\ UNCHANGED <<pxDMA_tx_buffers, txHead, txTail, xTXDescriptorSemaphore,
                   pool, stack, mem, xDataLength>>
    /\ UNCHANGED rxVars

(* ---------------------------------------------------------------------- *)
(* RX: resetrx_on_no_rxdata, emacps_check_rx, prvPassEthMessages           *)
(* ---------------------------------------------------------------------- *)

\* A test that looks at the counter just read only.
ResetRxNeeded_NowOnly(tempcntr, lastcntr) == tempcntr = 0

\* The test of resetrx_on_no_rxdata: no frame counted now nor the last time.
ResetRxNeeded(tempcntr, lastcntr) == tempcntr = 0 /\ lastcntr = 0

\* resetrx_on_no_rxdata: reading the counter clears it; RX_ENABLE is taken
\* out of the network-control register and put back.
resetrx_on_no_rxdata ==
    /\ rxcnt' = 0
    /\ nwctrl' = IF ResetRxNeeded(rxcnt, last_rx_frms_cntr)
                 THEN (nwctrl \ {"RXEN"}) \cup {"RXEN"}
                 ELSE nwctrl
    /\ last_rx_frms_cntr' = rxcnt

\* A replacement that is allocated whatever the filter said.
RxNewBuffer_Unfiltered(xAccepted, p) == pxGetNetworkBufferWithDescriptor(p)

\* pxNewBuffer after the filter and the allocation: NULL when the frame is
\* refused or no buffer can be had.
RxNewBuffer(xAccepted, p) ==
    IF xAccepted THEN pxGetNetworkBufferWithDescriptor(p) ELSE NULL

\* The whole status word taken for the length.
RxBytes_Whole(flags) == flags

\* rx_bytes: the length field of the descriptor's status word.
RxBytes(flags) == flags % RxLenField

\* The address word that posts pxNewBuffer in slot `head`, NEW cleared.
RxSlotAddress(pxNewBuffer, head) ==
    RxAddrField(PayloadOf(pxNewBuffer))
        + (IF head = N_RX - 1 THEN XEMACPS_RXBUF_WRAP_MASK ELSE 0)

\* if( ++head == ipconfigNIC_N_RX_DESC ) head = 0;
NextRxIndex(i) == IF i + 1 = N_RX THEN 0 ELSE i + 1

\* The for( ; ; ) of emacps_check_rx goes on while this holds.
CheckRxContinue(address, pxBuffer) == RxNew(address) /\ pxBuffer # NULL

\* One pass of the loop body on the loop state st; m is the payload memory.
CheckRxStep(st, m) ==
    LET head == st.head
        pxBuffer == st.bufs[head]
        xAccepted == xMayAcceptPacket(m[pxBuffer])
        got == RxNewBuffer(xAccepted, st.pool)
        pxNewBuffer == IF got = NULL THEN st.bufs[head] ELSE got
        rx_bytes == RxBytes(st.segs[head].flags)
        cleared == [st.next EXCEPT ![pxBuffer] = NULL]
    IN  [head |-> NextRxIndex(head),
         segs |-> [st.segs EXCEPT ![head] =
                      [address |-> RxSlotAddress(pxNewBuffer, head),
                       flags |-> 0]],
         bufs |-> IF got = NULL THEN st.bufs
                  ELSE [st.bufs EXCEPT ![head] = pxNewBuffer],
         pool |-> IF got = NULL THEN st.pool ELSE PoolTake(st.pool, got),
         lens |-> IF got = NULL THEN st.lens
                  ELSE [st.lens EXCEPT ![pxBuffer] = rx_bytes],
         first |-> IF got # NULL /\ st.first = NULL THEN pxBuffer ELSE st.first,
         lastd |-> IF got = NULL THEN st.lastd ELSE pxBuffer,
         next |-> IF got = NULL THEN st.next
                  ELSE IF st.first # NULL /\ st.lastd # NULL
                       THEN [cleared EXCEPT ![st.lastd] = pxBuffer]
                       ELSE cleared,
         msgCount |-> IF got = NULL THEN st.msgCount ELSE st.msgCount + 1]

RECURSIVE CheckRxLoop(_, _)
CheckRxLoop(st, m) ==
    IF CheckRxContinue(st.segs[st.head].address, st.bufs[st.head])
    THEN CheckRxLoop(CheckRxStep(st, m), m)
    ELSE st

\* The buffers linked through pxNextBuffer, starting at b.
RECURSIVE LinkedList(_, _, _)
LinkedList(b, next, fuel) ==
    IF b = NULL \/ fuel = 0 THEN <<>>
    ELSE <<b>> \o LinkedList(next[b], next, fuel - 1)

\* A release that stops after the first buffer of the list.
ReleaseAll_First(p, list) ==
    IF list = <<>> THEN p
    ELSE vReleaseNetworkBufferAndDescriptor(p, Head(list))

\* The pool after every buffer of the list was released.
RECURSIVE ReleaseAll(_, _)
ReleaseAll(p, list) ==
    IF list = <<>> THEN p
    ELSE ReleaseAll(vReleaseNetworkBufferAndDescriptor(p, Head(list)), Tail(list))

SeqSet(q) == {q[i] : i \in 1..Len(q)}

\* A hand-off that forgets the list when the event cannot be queued.
prvPassEthMessages_Leak(list, p, held, xSendOk) ==
    [pool |-> p, stack |-> IF xSendOk THEN held \cup SeqSet(list) ELSE held]

\* prvPassEthMessages with ipconfigUSE_LINKED_RX_MESSAGES: what becomes of
\* the list when the event is queued (xSendOk) and when it is not.
prvPassEthMessages(list, p, held, xSendOk) ==
    IF xSendOk
    THEN [pool |-> p, stack |-> held \cup SeqSet(list)]
    ELSE [pool |-> ReleaseAll(p, list), stack |-> held]

\* The payload of a buffer that is posted for the DMA holds nothing the
\* software may rely on: its cache lines were invalidated.
Reposted(m, segs, bufs) ==
    [b \in Buffers |->
        IF \E i \in RxSlots : bufs[i] = b /\ ~RxNew(segs[i].address)
        THEN NoFrame ELSE m[b]]

\* The locals of emacps_check_rx on entry.
CheckRxEntry ==
    [head |-> rxHead, segs |-> rxSegments, bufs |-> pxDMA_rx_buffers,
     pool |-> pool, lens |-> xDataLength, first |-> NULL, lastd |-> NULL,
     next |-> [b \in Buffers |-> NULL], msgCount |-> 0]

\* emacps_check_rx after its call of resetrx_on_no_rxdata: the loop over the
\* filled slots and the hand-over to the stack.
\* xSendOk: xSendEventStructToIPTask queues the event within its second.
CheckRxBody(xSendOk) ==
    LET st == CheckRxLoop(CheckRxEntry, mem)
        list == LinkedList(st.first, st.next, NBuf)
        passed == IF st.first # NULL
                  THEN prvPassEthMessages(list, st.pool, stack, xSendOk)
                  ELSE [pool |-> st.pool, stack |-> stack]
    IN  /\ rxSegments' = st.segs
        /\ pxDMA_rx_buffers' = st.bufs
        /\ rxHead' = st.head
        /\ pool' = passed.pool
        /\ stack' = passed.stack
        /\ mem' = Scrub(Reposted(mem, st.segs, st.bufs), pool, passed.pool, NoFrame)
        /\ xDataLength' = Scrub(st.lens, pool, passed.pool, 0)
        /\ UNCHANGED <<dmaRxIdx, isr_events>>
        /\ UNCHANGED txVars

\* emacps_check_rx, called by the driver task, from entry to return.
emacps_check_rx(xSendOk) == resetrx_on_no_rxdata /\ CheckRxBody(xSendOk)

(* ---------------------------------------------------------------------- *)
(* RX: the DMA engine and emacps_recv_handler                              *)
(* ---------------------------------------------------------------------- *)

\* A handler that stores its bit instead of or-ing it in.
emacps_recv_handler_Store == isr_events' = {"RX"}

\* emacps_recv_handler: the RX interrupt.
emacps_recv_handler == isr_events' = isr_events \cup {"RX"}

\* The descriptor the DMA goes to after slot i of the RX ring.
DmaNextRx(i, address) == IF RxWrap(address) THEN 0 ELSE i + 1

\* The status word the DMA writes for a frame that fits one buffer: its
\* length in the low 13 bits, start-of-frame (bit 14) and end-of-frame
\* (bit 15) both set.
DmaRxStatus(len) == (len % RxLenField) + 16384 + 32768

\* A frame arrives: the DMA stores it at the address of its current
\* descriptor plus the two-byte receive offset, writes the length into the
\* status word, sets NEW and raises the RX interrupt.
DmaRxArrive(f) ==
    LET d == rxSegments[dmaRxIdx]
        target == pxPacketBuffer_to_NetworkBuffer(
                      RxAddrField(d.address) + ipconfigPACKET_FILLER_SIZE)
    IN  /\ "RXEN" \in nwctrl
        /\ dmaRxIdx \in RxSlots
        /\ ~RxNew(d.address)
        /\ rxSegments' = [rxSegments EXCEPT ![dmaRxIdx] =
                             [address |-> d.address + XEMACPS_RXBUF_NEW_MASK,
                              flags |-> DmaRxStatus(f.len)]]
        /\ mem' = IF target = NULL THEN mem ELSE [mem EXCEPT ![target] = f.hdr]
        /\ rxcnt' = rxcnt + 1
        /\ dmaRxIdx' = DmaNextRx(dmaRxIdx, d.address)
        /\ emacps_recv_handler
        /\ UNCHANGED <<pxDMA_rx_buffers, rxHead, last_rx_frms_cntr, nwctrl,
                       pool, stack, xDataLength>>
        /\ UNCHANGED txVars

(* ---------------------------------------------------------------------- *)
(* The TCP/IP stack                                                        *)
(* ---------------------------------------------------------------------- *)

\* The stack is done with a buffer (a received frame was processed).
StackRelease(b) ==
    LET newPool == vReleaseNetworkBufferAndDescriptor(pool, b)
    IN  /\ b \in stack
        /\ stack' = stack \ {b}
        /\ pool' = newPool
        /\ mem' = Scrub(mem, pool, newPool, NoFrame)
        /\ xDataLength' = Scrub(xDataLength, pool, newPool, 0)
        /\ UNCHANGED <<isr_events, nwctrl>>
        /\ UNCHANGED txVars
        /\ UNCHANGED rxVars

(* ---------------------------------------------------------------------- *)
(* What the last step was                                                  *)
(* ---------------------------------------------------------------------- *)

\* After a step of the environment (the DMA, the stack's release).
Env == Last("env", 0, "none", 0, <<>>)

\* After emacps_send_message: the length asked for and the way taken.
SendTrace(xLength) ==
    LET path == SendPath(xLength, xTXDescriptorSemaphore)
    IN  Last("send", xLength, path, SendReturn(path), <<>>)

\* After emacps_check_tx: the number of slots it reclaimed.
CheckTxTrace ==
    Last("check_tx", 0, "none", CheckTxLoop(CheckTxEntry, txHead).n, <<>>)

\* After emacps_check_rx: its return value, the batch it built, and whether
\* the batch reached the stack.
CheckRxTrace(xSendOk) ==
    LET st == CheckRxLoop(CheckRxEntry, mem)
    IN  Last("check_rx", 0,
             IF st.first = NULL THEN "none"
             ELSE IF xSendOk THEN "passed" ELSE "lost",
             st.msgCount, LinkedList(st.first, st.next, NBuf))

(* ---------------------------------------------------------------------- *)
(* The system                                                              *)
(* ---------------------------------------------------------------------- *)

\* The TX ring alone: the stack sends, the DMA completes, the task reclaims.
NextTx ==
    \/ \E xLength \in TxLengths : StackSend(xLength) /\ last' = SendTrace(xLength)
    \/ emacps_check_tx /\ last' = CheckTxTrace
    \/ DmaTxComplete /\ last' = Env

SpecTx == Init /\ [][NextTx]_vars

\* The RX ring alone: frames arrive, the task drains, the stack consumes.
NextRx ==
    \/ \E xSendOk \in BOOLEAN :
           emacps_check_rx(xSendOk) /\ last' = CheckRxTrace(xSendOk)
    \/ \E f \in RxFrames : DmaRxArrive(f) /\ last' = Env
    \/ \E b \in Buffers : StackRelease(b) /\ last' = Env

SpecRx == Init /\ [][NextRx]_vars

\* Both rings at once, sharing the pool of a system that has one buffer less;
\* what the last step was is not recorded.
Next ==
    \/ \E xLength \in FewTxLengths : StackSend(xLength) /\ UNCHANGED last
    \/ emacps_check_tx /\ UNCHANGED last
    \/ \E xSendOk \in BOOLEAN : emacps_check_rx(xSendOk) /\ UNCHANGED last
    \/ DmaTxComplete /\ UNCHANGED last
    \/ \E f \in FewRxFrames : DmaRxArrive(f) /\ UNCHANGED last
    \/ \E b \in Buffers : StackRelease(b) /\ UNCHANGED last

Spec == InitWith(NBuf - 1) /\ [][Next]_vars

(* ---------------------------------------------------------------------- *)
(* Properties of the TX ring                                               *)
(* ---------------------------------------------------------------------- *)

\* The step just taken was a call of emacps_send_message.
SendStep == last'.op = "send"

\* The step just taken was a call of emacps_check_tx.
CheckTxStepTaken == last'.op = "check_tx"

\* The buffer a send step hands to the driver, seen from the state before.
SentBuffer == pxGetNetworkBufferWithDescriptor(pool)

\* A frame length the driver is to accept: MIN_FRAME .. MAX_FRAME.
FrameLengthOk(len) == len >= SizeofARPPacket /\ len <= dmaRX_TX_BUFFER_SIZE

\* TX slots that hold a published frame not yet reclaimed.
InFlight == {i \in TxSlots : pxDMA_tx_buffers[i] # NULL}

\* TX descriptors whose USED bit is clear.
UsedClear == {i \in TxSlots : ~txSegments[i].flags.USED}

\* The TX slots other than slot h are what they were.
OtherTxSlotsKept(h) ==
    \A i \in TxSlots \ {h} :
        /\ txSegments'[i] = txSegments[i]
        /\ pxDMA_tx_buffers'[i] = pxDMA_tx_buffers[i]

\* C1: a send with a valid length and a credit at hand publishes at
\* h = txHead: tx_buffers[h] and ring[h].address become the payload pointer,
\* ring[h].flags becomes LAST | length (| WRAP iff h is the last slot) with
\* USED clear, txHead becomes (h + 1) mod N_TX, one credit is taken, START_TX
\* is set, and no other slot, no other tx_buffers entry and not txTail
\* changes.
C1_SendPublishes ==
    [][ (SendStep /\ FrameLengthOk(last'.len) /\ xTXDescriptorSemaphore > 0) =>
          LET h == txHead
          IN  /\ pxDMA_tx_buffers'[h] = PayloadOf(SentBuffer)
              /\ txSegments'[h].address = PayloadOf(SentBuffer)
              /\ txSegments'[h].flags =
                     [USED |-> FALSE, WRAP |-> (h = N_TX - 1), LAST |-> TRUE,
                      LEN |-> last'.len]
              /\ txHead' = (h + 1) % N_TX
              /\ xTXDescriptorSemaphore' = xTXDescriptorSemaphore - 1
              /\ "STARTTX" \in nwctrl'
              /\ OtherTxSlotsKept(h)
              /\ txTail' = txTail ]_vars

\* A frame was just published in the last slot of the ring (with WRAP).
C1_Witness ==
    /\ last.op = "send" /\ last.path = "publish"
    /\ txHead = 0
    /\ txSegments[N_TX - 1].flags.WRAP /\ ~txSegments[N_TX - 1].flags.USED

\* C2: a send publishes only if MIN_FRAME <= length <= MAX_FRAME; with a
\* credit at hand MIN_FRAME and MAX_FRAME are published, MIN_FRAME - 1 and
\* MAX_FRAME + 1 are not; a refused call takes no credit, leaves txHead, the
\* descriptors and tx_buffers alone and does not set START_TX.
C2_LengthGate ==
    [][ SendStep =>
          /\ (txSegments' # txSegments \/ pxDMA_tx_buffers' # pxDMA_tx_buffers)
                => FrameLengthOk(last'.len)
          /\ ( /\ last'.len \in {SizeofARPPacket, dmaRX_TX_BUFFER_SIZE}
               /\ xTXDescriptorSemaphore > 0 )
                => /\ pxDMA_tx_buffers'[txHead] = PayloadOf(SentBuffer)
                   /\ ~txSegments'[txHead].flags.USED
          /\ last'.len \in {SizeofARPPacket - 1, dmaRX_TX_BUFFER_SIZE + 1}
                => /\ UNCHANGED <<xTXDescriptorSemaphore, txHead, txSegments,
                                  pxDMA_tx_buffers, nwctrl>> ]_vars

\* A frame one byte longer than MAX_FRAME was just refused.
C2_Witness ==
    /\ last.op = "send" /\ last.len = dmaRX_TX_BUFFER_SIZE + 1
    /\ last.path = "badlen"

\* C3: with all N_TX credits taken (and nothing reclaimed while the call
\* waits) a send of a valid frame fails: no descriptor is written, txHead and
\* tx_buffers stay, START_TX is not set and the buffer is back in the pool.
\* So no send ever overwrites a slot that is published and not reclaimed, and
\* never more than N_TX frames are published and unreclaimed.
C3_Backpressure ==
    [][ SendStep =>
          /\ (FrameLengthOk(last'.len) /\ xTXDescriptorSemaphore = 0)
                => /\ UNCHANGED <<txSegments, txHead, pxDMA_tx_buffers, nwctrl,
                                  xTXDescriptorSemaphore>>
                   /\ pool'[SentBuffer] = 1
          /\ \A i \in InFlight :
                /\ txSegments'[i] = txSegments[i]
                /\ pxDMA_tx_buffers'[i] = pxDMA_tx_buffers[i]
          /\ xTXDescriptorSemaphore' >= 0 ]_vars

\* A send has just timed out on a ring that is full of published frames.
C3_Witness ==
    /\ last.op = "send" /\ last.path = "timeout"
    /\ InFlight = TxSlots
    /\ xTXDescriptorSemaphore = 0

\* C4: emacps_send_message returns 0 on every path; the buffer is then either
\* published in a TX slot or back in the pool, never both and never neither,
\* and a credit was consumed exactly when it was published.
C4_BufferHandledOnce ==
    [][ SendStep =>
          LET published == \E i \in TxSlots :
                               pxDMA_tx_buffers'[i] = PayloadOf(SentBuffer)
              released == pool'[SentBuffer] > 0
          IN  /\ last'.ret = 0
              /\ published # released
              /\ pool'[SentBuffer] <= 1
              /\ published =>
                     xTXDescriptorSemaphore' = xTXDescriptorSemaphore - 1
              /\ ~published =>
                     xTXDescriptorSemaphore' = xTXDescriptorSemaphore ]_vars

\* A send has just returned after releasing the buffer it could not publish
\* while another send's buffer is still published.
C4_Witness ==
    /\ last.op = "send" /\ last.path # "publish" /\ last.ret = 0
    /\ InFlight # {}
    /\ \E b \in Buffers : pool[b] = 1

\* The number of slots emacps_check_tx is to reclaim: those found with USED
\* set when going round the ring from `tail`, among the n that are in flight.
RECURSIVE Reclaimable(_, _)
Reclaimable(tail, n) ==
    IF n = 0 \/ ~txSegments[tail].flags.USED THEN 0
    ELSE 1 + Reclaimable((tail + 1) % N_TX, n - 1)

\* The k slots that follow txTail in ring order.
FromTail(k) == {(txTail + j) % N_TX : j \in 0..(k - 1)}

\* C5: emacps_check_tx reclaims the in-flight slots with USED set, in ring
\* order from txTail, up to the first one with USED clear.  Each reclaimed
\* slot's buffer goes back to the pool once, its tx_buffers entry becomes
\* null, its flags become USED (USED | WRAP in the last slot), one credit
\* comes back per slot and txTail moves by one per slot.  With nothing to
\* reclaim the call changes nothing.
C5_Reclaim ==
    [][ CheckTxStepTaken =>
          LET k == Reclaimable(txTail, N_TX - xTXDescriptorSemaphore)
              done == FromTail(k)
          IN  /\ last'.ret = k
              /\ \A i \in done :
                    /\ pxDMA_tx_buffers'[i] = NULL
                    /\ txSegments'[i].flags =
                           [USED |-> TRUE, WRAP |-> (i = N_TX - 1),
                            LAST |-> FALSE, LEN |-> 0]
              /\ \A b \in Buffers :
                    pool'[b] = pool[b] +
                        Cardinality({i \in done :
                                        pxDMA_tx_buffers[i] = PayloadOf(b)})
              /\ \A i \in TxSlots \ done :
                    /\ pxDMA_tx_buffers'[i] = pxDMA_tx_buffers[i]
                    /\ txSegments'[i] = txSegments[i]
              /\ xTXDescriptorSemaphore' = xTXDescriptorSemaphore + k
              /\ txTail' = (txTail + k) % N_TX
              /\ k = 0 =>
                    UNCHANGED <<txSegments, rxSegments, pxDMA_tx_buffers,
                                pxDMA_rx_buffers, txHead, txTail, rxHead,
                                xTXDescriptorSemaphore, isr_events, txBusy,
                                last_rx_frms_cntr, nwctrl, rxcnt, pool, stack,
                                mem, xDataLength>> ]_vars

\* emacps_check_tx has just reclaimed one slot and stopped at the next one,
\* which is published and not yet sent.
C5_Witness ==
    /\ last.op = "check_tx" /\ last.ret = 1
    /\ pxDMA_tx_buffers[txTail] # NULL
    /\ ~txSegments[txTail].flags.USED

\* C6: between calls, the credit count is N_TX minus the number of slots
\* published and not yet reclaimed, and lies in 0 .. N_TX.
C6_CreditAccounting ==
    /\ xTXDescriptorSemaphore = N_TX - Cardinality(InFlight)
    /\ xTXDescriptorSemaphore >= 0
    /\ xTXDescriptorSemaphore <= N_TX

\* A reclaim has given a credit back while another frame is still in flight.
C6_Witness ==
    /\ last.op = "check_tx" /\ last.ret > 0
    /\ xTXDescriptorSemaphore > 0
    /\ xTXDescriptorSemaphore < N_TX

\* C7 as stated: between calls, whatever the DMA has completed, the number of
\* TX descriptors with USED clear is N_TX - credits.
C7_AsStated ==
    Cardinality(UsedClear) = N_TX - xTXDescriptorSemaphore

\* TX slots the DMA has completed and emacps_check_tx has not yet reclaimed.
AwaitingReclaim == {i \in InFlight : txSegments[i].flags.USED}

\* C7: between calls, the number of TX descriptors with USED clear is
\* N_TX - credits less the number of slots that are completed and await
\* reclaim: never more than N_TX - credits, and equal to it exactly when no
\* completed slot awaits reclaim.
C7_UsedClearCount ==
    /\ Cardinality(UsedClear) =
           N_TX - xTXDescriptorSemaphore - Cardinality(AwaitingReclaim)
    /\ Cardinality(UsedClear) <= N_TX - xTXDescriptorSemaphore
    /\ (Cardinality(UsedClear) = N_TX - xTXDescriptorSemaphore)
           <=> (AwaitingReclaim = {})

\* The DMA has completed a frame that emacps_check_tx has not reclaimed yet,
\* while another frame is published and not yet sent.
C7_Witness ==
    /\ AwaitingReclaim # {}
    /\ UsedClear # {}

(* ---------------------------------------------------------------------- *)
(* Properties of buffer ownership                                          *)
(* ---------------------------------------------------------------------- *)

\* The number of places that hold buffer b: the pool (once per release), the
\* stack, the TX slots and the RX slots.
Owners(b) ==
    pool[b]
      + (IF b \in stack THEN 1 ELSE 0)
      + Cardinality({i \in TxSlots : pxDMA_tx_buffers[i] = PayloadOf(b)})
      + Cardinality({i \in RxSlots : pxDMA_rx_buffers[i] = b})

\* The buffers the DMA may read or write: the targets of the TX descriptors
\* with USED clear and of all RX descriptors.
DmaTargets ==
    {b \in Buffers :
        \/ \E i \in UsedClear : txSegments[i].address = PayloadOf(b)
        \/ \E i \in RxSlots :
              RxAddrField(rxSegments[i].address) + ipconfigPACKET_FILLER_SIZE
                  = PayloadOf(b)}

\* C8: whatever send, check_tx, check_rx, the DMA and failing enqueues do,
\* every buffer of the system (here 1 .. NBuf - 1) is in exactly one place:
\* pool, stack, TX ring or RX ring; none is in two places or released twice,
\* none is in no place, and no buffer the pool or the stack holds is still
\* the target of a descriptor the DMA works on.
C8_SingleOwner ==
    /\ \A b \in Buffers : Owners(b) = (IF b < NBuf THEN 1 ELSE 0)
    /\ \A b \in DmaTargets : pool[b] = 0 /\ b \notin stack

\* Every buffer is out of the pool: the stack holds a received frame, a sent
\* frame is in the TX ring, and the RX ring holds the others.
C8_Witness ==
    /\ stack # {}
    /\ InFlight # {}
    /\ Free(pool) = {}

(* ---------------------------------------------------------------------- *)
(* Properties of the RX ring                                               *)
(* ---------------------------------------------------------------------- *)

\* The step just taken was a call of emacps_check_rx.
CheckRxStepTaken == last'.op = "check_rx"

\* The number of consecutive slots with NEW set, going round the ring from
\* `head` over at most n slots.
RECURSIVE FilledRun(_, _)
FilledRun(head, n) ==
    IF n = 0 \/ ~RxNew(rxSegments[head].address) THEN 0
    ELSE 1 + FilledRun((head + 1) % N_RX, n - 1)

\* The j-th slot after rxHead in ring order (j = 0 is rxHead itself).
RxSlotAt(j) == (rxHead + j) % N_RX

\* The frame in slot i passes the accept-filter.
SlotAccepted(i) == xMayAcceptPacket(mem[pxDMA_rx_buffers[i]])

\* How many of the first j slots from rxHead hold an accepted frame.
AcceptedBefore(j) ==
    Cardinality({m \in 0..(j - 1) : SlotAccepted(RxSlotAt(m))})

\* The frame of the j-th slot from rxHead is dropped: the filter refuses it,
\* or the pool has run dry when its replacement is asked for.
SlotDropped(j) ==
    \/ ~SlotAccepted(RxSlotAt(j))
    \/ AcceptedBefore(j) >= Cardinality(Free(pool))

\* The buffers of the first k slots from rxHead, in ring order.
RunBuffers(k) == [j \in 1..k |-> pxDMA_rx_buffers[RxSlotAt(j - 1)]]

\* What emacps_check_rx does to the ring and returns when it finds k filled
\* slots from rxHead, every frame accepted and every allocation succeeding.
RxBatchDone(k) ==
    /\ last'.ret = k
    /\ last'.batch = RunBuffers(k)
    /\ rxHead' = (rxHead + k) % N_RX
    /\ \A j \in 0..(k - 1) :
          LET i == RxSlotAt(j)
              fresh == pxDMA_rx_buffers'[i]
          IN  /\ fresh \in Free(pool)
              /\ fresh # pxDMA_rx_buffers[i]
              /\ pool'[fresh] = 0
              /\ RxAddrField(rxSegments'[i].address)
                     = PayloadOf(fresh) - (PayloadOf(fresh) % 4)
              /\ ~RxNew(rxSegments'[i].address)
              /\ RxWrap(rxSegments'[i].address) <=> (i = N_RX - 1)
    /\ \A j1, j2 \in 0..(k - 1) :
          j1 # j2 =>
              pxDMA_rx_buffers'[RxSlotAt(j1)] # pxDMA_rx_buffers'[RxSlotAt(j2)]

\* The k buffers of the run are with the stack, each with the length of its
\* descriptor.
RxBatchDelivered(k) ==
    \A j \in 0..(k - 1) :
        LET i == RxSlotAt(j)
            b == pxDMA_rx_buffers[i]
        IN  /\ b \in stack'
            /\ xDataLength'[b] = rxSegments[i].flags % RxLenField

\* The case of C9: k >= 1 filled slots from rxHead, every frame accepted, a
\* free buffer for every slot.
RxBatchCase(k) ==
    /\ k >= 1
    /\ \A j \in 0..(k - 1) : SlotAccepted(RxSlotAt(j))
    /\ Cardinality(Free(pool)) >= k

\* C9 as stated: with k >= 1 filled slots from rxHead, all accepted and all
\* replacements allocated, emacps_check_rx delivers exactly those k buffers to
\* the stack as one linked batch in ring order with their descriptors'
\* lengths, posts a fresh buffer in each slot (NEW clear, WRAP only in the
\* last slot), advances rxHead by k and returns k.
C9_AsStated ==
    [][ CheckRxStepTaken =>
          LET k == FilledRun(rxHead, N_RX)
          IN  RxBatchCase(k) => RxBatchDone(k) /\ RxBatchDelivered(k) ]_vars

\* C9: in that case emacps_check_rx links exactly those k buffers into one
\* batch in ring order, posts a fresh buffer in each slot (NEW clear, WRAP
\* only in the last slot), advances rxHead by k and returns k; and when the
\* stack takes the batch (the event is queued), the k buffers are with the
\* stack, each with its descriptor's length.
C9_BatchDelivery ==
    [][ CheckRxStepTaken =>
          LET k == FilledRun(rxHead, N_RX)
          IN  RxBatchCase(k) =>
                /\ RxBatchDone(k)
                /\ last'.path = "passed" => RxBatchDelivered(k) ]_vars

\* emacps_check_rx has just delivered a batch of N_RX linked buffers.
C9_Witness ==
    /\ last.op = "check_rx" /\ last.path = "passed"
    /\ last.ret = N_RX
    /\ Len(last.batch) = N_RX
    /\ SeqSet(last.batch) \subseteq stack

\* C10: a frame the filter refuses, or whose replacement cannot be
\* allocated, is not handed to the stack and not counted: its buffer stays in
\* its rx_buffers entry, the slot is posted again with the same address and
\* NEW clear, and rxHead moves on.  So every buffer that reaches the stack
\* has passed the filter.
C10_DropRecycles ==
    [][ CheckRxStepTaken =>
          LET k == FilledRun(rxHead, N_RX)
              dropped == {j \in 0..(k - 1) : SlotDropped(j)}
          IN  /\ \A j \in dropped :
                    LET i == RxSlotAt(j)
                        b == pxDMA_rx_buffers[i]
                    IN  /\ pxDMA_rx_buffers'[i] = b
                        /\ b \notin stack'
                        /\ b \notin SeqSet(last'.batch)
                        /\ rxSegments'[i].address
                               = rxSegments[i].address - XEMACPS_RXBUF_NEW_MASK
                        /\ RxAddrField(rxSegments'[i].address)
                               = PayloadOf(b) - (PayloadOf(b) % 4)
              /\ last'.ret = k - Cardinality(dropped)
              /\ rxHead' = (rxHead + k) % N_RX
              /\ \A b \in stack' \ stack : xMayAcceptPacket(mem[b]) ]_vars

\* emacps_check_rx has just found two frames, delivered one and dropped the
\* other although the pool was not empty: the filter refused it.
C10_Witness ==
    /\ last.op = "check_rx" /\ last.path = "passed"
    /\ last.ret = 1
    /\ last_rx_frms_cntr = 2
    /\ Free(pool) # {}

\* The filled slots from rxHead (by their place j in the run of k) whose
\* frame is handed on, in ring order.
RxKept(k) == {j \in 0..(k - 1) : ~SlotDropped(j)}

\* C11: when the batch cannot be queued to the stack, every buffer of the
\* batch is released to the pool exactly once and none reaches the stack,
\* while the slots that were refilled keep their replacement posted with NEW
\* clear and rxHead keeps its advanced value.
C11_EnqueueFailure ==
    [][ (CheckRxStepTaken /\ last'.path = "lost") =>
          LET k == FilledRun(rxHead, N_RX)
          IN  /\ last'.batch # <<>>
              /\ SeqSet(last'.batch) =
                     {pxDMA_rx_buffers[RxSlotAt(j)] : j \in RxKept(k)}
              /\ \A b \in SeqSet(last'.batch) :
                    /\ pool[b] = 0
                    /\ pool'[b] = 1
                    /\ b \notin stack'
              /\ stack' = stack
              /\ \A j \in RxKept(k) :
                    LET i == RxSlotAt(j)
                        fresh == pxDMA_rx_buffers'[i]
                    IN  /\ fresh \in Free(pool)
                        /\ fresh # pxDMA_rx_buffers[i]
                        /\ pool'[fresh] = 0
                        /\ ~RxNew(rxSegments'[i].address)
                        /\ RxAddrField(rxSegments'[i].address)
                               = PayloadOf(fresh) - (PayloadOf(fresh) % 4)
              /\ rxHead' = (rxHead + k) % N_RX ]_vars

\* A batch of two linked buffers has just been refused by the stack's queue
\* and both are back in the pool.
C11_Witness ==
    /\ last.op = "check_rx" /\ last.path = "lost"
    /\ Len(last.batch) = 2
    /\ \A b \in SeqSet(last.batch) : pool[b] = 1 /\ b \notin stack

(* ---------------------------------------------------------------------- *)
(* The TX round trip: send, TX-done, emacps_check_tx                       *)
(* ---------------------------------------------------------------------- *)

\* No step of a round trip is under way.
TripNone == [op |-> "trip", stage |-> "none"]

\* The TX ring is idle: nothing published, every descriptor USED.
TxIdle == \A i \in TxSlots : pxDMA_tx_buffers[i] = NULL /\ txSegments[i].flags.USED

\* After a send: when it published a frame on an idle ring, the ring, the
\* credits and the pool as they were before it.
TripSent(xLength) ==
    IF TxIdle /\ SendPath(xLength, xTXDescriptorSemaphore) = "publish"
    THEN [op |-> "trip", stage |-> "sent", slot |-> txHead,
          flags |-> [i \in TxSlots |-> txSegments[i].flags],
          sem |-> xTXDescriptorSemaphore,
          inflight |-> (txHead - txTail + N_TX) % N_TX,
          pool |-> pool,
          buf |-> pxGetNetworkBufferWithDescriptor(pool)]
    ELSE TripNone

\* The stage the round trip has reached.
TripStage == IF last.op = "trip" THEN last.stage ELSE "none"

\* After a TX-done: the frame of the round trip was the one completed.
TripCompleted ==
    IF TripStage = "sent" /\ dmaTxIdx = last.slot
    THEN [last EXCEPT !.stage = "done"]
    ELSE TripNone

\* After emacps_check_tx: it followed the TX-done of the round trip.
TripReclaimed ==
    IF TripStage = "done" THEN [last EXCEPT !.stage = "back"] ELSE TripNone

\* The TX ring with the stages of a round trip recorded.
NextTrip ==
    \/ \E xLength \in TxLengths : StackSend(xLength) /\ last' = TripSent(xLength)
    \/ DmaTxComplete /\ last' = TripCompleted
    \/ emacps_check_tx /\ last' = TripReclaimed

SpecTrip == Init /\ [][NextTrip]_vars

\* C12: one valid frame sent on an idle ring, then the TX-done of its slot,
\* then emacps_check_tx: every TX descriptor has the flags it had before the
\* send (USED, WRAP only on the last slot), every tx_buffers entry is null,
\* the credits are what they were, as many slots lie between txTail and
\* txHead as before, and the buffer is in the pool once, as before the send.
C12_RoundTrip ==
    TripStage = "back" =>
        /\ \A i \in TxSlots :
              /\ txSegments[i].flags = last.flags[i]
              /\ txSegments[i].flags.USED
              /\ txSegments[i].flags.WRAP <=> (i = N_TX - 1)
              /\ pxDMA_tx_buffers[i] = NULL
        /\ xTXDescriptorSemaphore = last.sem
        /\ (txHead - txTail + N_TX) % N_TX = last.inflight
        /\ txTail = (last.slot + 1) % N_TX
        /\ pool = last.pool
        /\ pool[last.buf] = 1

\* A round trip through the last slot of the ring has just ended.
C12_Witness ==
    /\ TripStage = "back"
    /\ last.slot = N_TX - 1
    /\ txHead = 0

(* ---------------------------------------------------------------------- *)
(* The accept-filter on its own                                            *)
(* ---------------------------------------------------------------------- *)

\* The header fields the filter is tried on, as they stand on the wire (host
\* order numbers; FilterHeaders stores them the way memory holds them).
\* EtherTypes: ARP, IPv6, IPv4 and RARP.
WireFrameTypes == {2054, 34525, 2048, 32821}

\* Fragment fields: nothing set, offset 1, offset bit 12, all offset bits,
\* more-fragments only, don't-fragment only.
WireFragments == {0, 1, 4096, 8191, 8192, 16384}

\* Version/header-length bytes around both limits.
WireHeaderLengths == {68, 69, 79, 80}

\* Protocols: UDP and TCP.
WireProtocols == {17, 6}

\* Source ports: DNS, NBNS, LLMNR and an ordinary one.
WireSourcePorts == {53, 137, 5355, 4000}

\* Destination ports: the bound one, an unbound one, DNS, NBNS, LLMNR.
WireDestinationPorts == {7, 9, 53, 137, 5355}

FilterHeaders ==
    {Hdr(FreeRTOS_ntohs(ft), FreeRTOS_ntohs(frag), vhl, proto,
         FreeRTOS_ntohs(sport), FreeRTOS_ntohs(dport)) :
        ft \in WireFrameTypes, frag \in WireFragments,
        vhl \in WireHeaderLengths, proto \in WireProtocols,
        sport \in WireSourcePorts, dport \in WireDestinationPorts}

\* The state after init_dma with some frame in the buffer of RX slot 0.
FilterInit ==
    /\ txSegments = CleanTxSegments
    /\ pxDMA_tx_buffers = CleanTxBuffers
    /\ rxSegments = InitRxSegments
    /\ pxDMA_rx_buffers = InitRxBuffers
    /\ txHead = 0
    /\ txTail = 0
    /\ rxHead = 0
    /\ xTXDescriptorSemaphore = N_TX
    /\ isr_events = {}
    /\ txBusy = FALSE
    /\ last_rx_frms_cntr = 0
    /\ nwctrl = {"RXEN", "TXEN"}
    /\ rxcnt = 0
    /\ dmaTxIdx = 0
    /\ dmaTxActive = FALSE
    /\ dmaRxIdx = 0
    /\ pool = [b \in Buffers |-> IF b > N_RX THEN 1 ELSE 0]
    /\ stack = {}
    /\ \E h \in FilterHeaders :
           mem = [b \in Buffers |-> IF b = InitRxBuffers[0] THEN h ELSE NoFrame]
    /\ xDataLength = [b \in Buffers |-> 0]
    /\ last = Last("init", 0, "none", 0, <<>>)

\* xMayAcceptPacket is called on the frame in the buffer of RX slot 0.
FilterPacket ==
    /\ last.op = "init"
    /\ last' = [op |-> "filter",
                ret |-> xMayAcceptPacket(mem[pxDMA_rx_buffers[0]])]
    /\ UNCHANGED <<txSegments, rxSegments, pxDMA_tx_buffers, pxDMA_rx_buffers,
                   txHead, txTail, rxHead, xTXDescriptorSemaphore, isr_events,
                   txBusy, last_rx_frms_cntr, nwctrl, rxcnt, dmaTxIdx,
                   dmaTxActive, dmaRxIdx, pool, stack, mem, xDataLength>>

SpecFilter == FilterInit /\ [][FilterPacket]_vars

\* The frame the filter was tried on, its fields in host order.
Filtered ==
    LET h == mem[pxDMA_rx_buffers[0]]
    IN  [type |-> FreeRTOS_ntohs(h.usFrameType),
         frag |-> FreeRTOS_ntohs(h.usFragmentOffset),
         vhl |-> h.ucVersionHeaderLength,
         proto |-> h.ucProtocol,
         sport |-> FreeRTOS_ntohs(h.usSourcePort),
         dport |-> FreeRTOS_ntohs(h.usDestinationPort)]

\* What the filter is to answer for frame f when a UDP datagram passes on
\* the well-known source ports `sports` and destination ports `dports`.
FilterAnswer(f, sports, dports) ==
    \/ f.type \in {2054, 34525}
    \/ /\ f.type = 2048
       /\ f.frag % 8192 = 0
       /\ f.vhl >= 69 /\ f.vhl <= 79
       /\ f.proto = 17 =>
              \/ f.dport \in BoundUDPPorts
              \/ f.sport \in sports
              \/ f.dport \in dports

\* C13 as stated: ARP and IPv6 pass, other EtherTypes than IPv4 do not, and
\* IPv4 passes iff the 13 offset bits are zero, the version/IHL byte is in
\* 0x45..0x4F and, for UDP, the destination port is bound or the source or
\* the destination port is one of 5355, 137, 53.
C13_AsStated ==
    last.op = "filter" =>
        (last.ret <=> FilterAnswer(Filtered, {5355, 137, 53}, {5355, 137, 53}))

\* C13: the same, except that DNS (53) counts as source port only: a UDP
\* datagram to port 53 passes only if port 53 is bound or its source port is
\* one of 5355, 137, 53.
C13_Filter ==
    last.op = "filter" =>
        (last.ret <=> FilterAnswer(Filtered, {5355, 137, 53}, {5355, 137}))

\* The filter has just refused a well-formed UDP datagram sent to port 53
\* from an ordinary port.
C13_Witness ==
    /\ last.op = "filter" /\ ~last.ret
    /\ Filtered.type = 2048 /\ Filtered.frag = 0 /\ Filtered.vhl = 69
    /\ Filtered.proto = 17
    /\ Filtered.dport = 53 /\ Filtered.sport = 4000

(* ---------------------------------------------------------------------- *)
(* resetrx_on_no_rxdata, statement by statement                            *)
(* ---------------------------------------------------------------------- *)

\* Where the driver task stands in emacps_check_rx: "idle" outside it, then
\* "test", "off", "on", "store" inside resetrx_on_no_rxdata, and "loop" when
\* resetrx_on_no_rxdata has returned.
ResetRxStage == IF last.op = "resetrx" THEN last.stage ELSE "idle"

\* What the step leaves untouched besides the registers named in it.
ResetRxKeeps ==
    /\ UNCHANGED <<rxSegments, pxDMA_rx_buffers, rxHead, dmaRxIdx, isr_events,
                   pool, stack, mem, xDataLength>>
    /\ UNCHANGED txVars

\* tempcntr = XEmacPs_ReadReg( RXCNT ): the read clears the counter. The
\* record keeps the local, the remembered value and the register as they
\* were on entry, and whether RX_ENABLE has been seen to go off and on.
ResetRxRead ==
    /\ ResetRxStage = "idle"
    /\ rxcnt' = 0
    /\ last' = [op |-> "resetrx", stage |-> "test", tempcntr |-> rxcnt,
                prev |-> last_rx_frms_cntr, entry |-> nwctrl,
                off |-> FALSE, on |-> FALSE]
    /\ UNCHANGED <<nwctrl, last_rx_frms_cntr>>
    /\ ResetRxKeeps

\* if( ( tempcntr == 0 ) && ( last_rx_frms_cntr == 0 ) )
ResetRxTest ==
    /\ ResetRxStage = "test"
    /\ last' = [last EXCEPT !.stage =
                   IF ResetRxNeeded(last.tempcntr, last_rx_frms_cntr)
                   THEN "off" ELSE "store"]
    /\ UNCHANGED <<nwctrl, rxcnt, last_rx_frms_cntr>>
    /\ ResetRxKeeps

\* regctrl &= ~RXEN, written to the network-control register.
ResetRxDisable ==
    /\ ResetRxStage = "off"
    /\ nwctrl' = nwctrl \ {"RXEN"}
    /\ last' = [last EXCEPT !.stage = "on",
                            !.off = "RXEN" \in nwctrl /\ "RXEN" \notin nwctrl']
    /\ UNCHANGED <<rxcnt, last_rx_frms_cntr>>
    /\ ResetRxKeeps

\* regctrl |= RXEN, written to the network-control register.
ResetRxEnable ==
    /\ ResetRxStage = "on"
    /\ nwctrl' = nwctrl \cup {"RXEN"}
    /\ last' = [last EXCEPT !.stage = "store",
                            !.on = /\ last.off
                                   /\ "RXEN" \notin nwctrl
                                   /\ "RXEN" \in nwctrl']
    /\ UNCHANGED <<rxcnt, last_rx_frms_cntr>>
    /\ ResetRxKeeps

\* xemacpsif->last_rx_frms_cntr = tempcntr, and the return.
ResetRxStore ==
    /\ ResetRxStage = "store"
    /\ last_rx_frms_cntr' = last.tempcntr
    /\ last' = [last EXCEPT !.stage = "loop"]
    /\ UNCHANGED <<nwctrl, rxcnt>>
    /\ ResetRxKeeps

\* The rest of emacps_check_rx.
CheckRxAfterReset(xSendOk) ==
    /\ ResetRxStage = "loop"
    /\ CheckRxBody(xSendOk)
    /\ last' = [last EXCEPT !.stage = "idle"]
    /\ UNCHANGED <<nwctrl, rxcnt, last_rx_frms_cntr>>

\* The RX ring with resetrx_on_no_rxdata taken statement by statement, the
\* DMA counting frames in between.
NextResetRx ==
    \/ ResetRxRead
    \/ ResetRxTest
    \/ ResetRxDisable
    \/ ResetRxEnable
    \/ ResetRxStore
    \/ \E xSendOk \in BOOLEAN : CheckRxAfterReset(xSendOk)
    \/ \E f \in FewRxFrames : DmaRxArrive(f) /\ UNCHANGED last
    \/ \E b \in Buffers : StackRelease(b) /\ UNCHANGED last

SpecResetRx == Init /\ [][NextResetRx]_vars

SemaphoreCreated == TRUE

\* is_tx_space_available: ipconfigNIC_N_TX_DESC minus the semaphore's count,
\* or 0 when there is no semaphore.
is_tx_space_available(xCreated, uxSemCount) ==
    IF xCreated THEN N_TX - uxSemCount ELSE 0

\* The caller asks; nothing but the record of the answer changes.
TxSpaceAsked ==
    /\ last' = [op |-> "space",
                ret |-> is_tx_space_available(SemaphoreCreated,
                                              xTXDescriptorSemaphore)]
    /\ UNCHANGED <<txSegments, rxSegments, pxDMA_tx_buffers, pxDMA_rx_buffers,
                   txHead, txTail, rxHead, xTXDescriptorSemaphore, isr_events,
                   txBusy, last_rx_frms_cntr, nwctrl, rxcnt, dmaTxIdx,
                   dmaTxActive, dmaRxIdx, pool, stack, mem, xDataLength>>

\* The TX ring with a caller that asks for the space between the steps.
NextTxSpace ==
    \/ \E xLength \in TxLengths : StackSend(xLength) /\ last' = Env
    \/ emacps_check_tx /\ last' = Env
    \/ DmaTxComplete /\ last' = Env
    \/ TxSpaceAsked

SpecTxSpace == Init /\ [][NextTxSpace]_vars

\* C15 as stated: the answer of is_tx_space_available is the TX credit of
\* that instant, and it is non-zero exactly when emacps_send_message with a
\* valid length would get a credit without waiting.
C15_AsStated ==
    last.op = "space" =>
        /\ last.ret = xTXDescriptorSemaphore
        /\ last.ret # 0
               <=> SendPath(SizeofARPPacket, xTXDescriptorSemaphore) = "publish"

(* ---------------------------------------------------------------------- *)
(* Both rings, with frames the filter accepts and frames it refuses        *)
(* ---------------------------------------------------------------------- *)

\* One frame of each kind: accepted by the filter, refused by it.
PostedRxFrames == {FrameARP, FrameUDPUnbound}

\* Both rings sharing a pool that has one buffer more than the RX ring holds,
\* so that receptions are accepted, refused, left without a replacement
\* buffer (the stack or the TX ring has the spare one) or lost at the queue.
NextPosted ==
    \/ \E xLength \in FewTxLengths : StackSend(xLength) /\ UNCHANGED last
    \/ emacps_check_tx /\ UNCHANGED last
    \/ \E xSendOk \in BOOLEAN : emacps_check_rx(xSendOk) /\ UNCHANGED last
    \/ DmaTxComplete /\ UNCHANGED last
    \/ \E f \in PostedRxFrames : DmaRxArrive(f) /\ UNCHANGED last
    \/ \E b \in Buffers : StackRelease(b) /\ UNCHANGED last

SpecPosted == InitWith(NBuf - 2) /\ [][NextPosted]_vars

\* C16: after init_dma every RX slot has a buffer and NEW clear; ever after,
\* every RX slot has a buffer and every TX descriptor with USED clear has a
\* tx_buffers entry.
C16_SlotsPosted ==
    /\ \A i \in RxSlots :
           pxDMA_rx_buffers[i] # NULL /\ ~RxNew(rxSegments[i].address)
    /\ [] ( /\ \A i \in RxSlots : pxDMA_rx_buffers[i] # NULL
            /\ \A i \in TxSlots :
                   ~txSegments[i].flags.USED => pxDMA_tx_buffers[i] # NULL )

\* A frame is published and not yet sent while slots have been reclaimed, and
\* emacps_check_rx has passed RX slot 0 leaving its first buffer in place (the
\* frame was refused or no replacement could be had).
C16_Witness ==
    /\ \E i \in TxSlots :
           ~txSegments[i].flags.USED /\ pxDMA_tx_buffers[i] # NULL
    /\ txTail # 0
    /\ rxHead = 1
    /\ pxDMA_rx_buffers[0] = InitRxBuffers[0]
    /\ pool[InitRxBuffers[0]] = 0

(* ---------------------------------------------------------------------- *)
(* The TX ring, statement by statement                                     *)
(* ---------------------------------------------------------------------- *)

\* One producer is in emacps_send_message and the driver task in
\* emacps_check_tx, each at a statement of its own.  The record holds, for
\* the producer: its place (spc), its local head, the buffer and the length
\* it was called with; for the driver task: its place (cpc) and its locals
\* tail, head and uxCount; and the set of slots whose publication is
\* finished (flags written) and whose credit has not been given back.
FineIdle ==
    [op |-> "fine", spc |-> "idle", shead |-> 0, sbuf |-> NULL, slen |-> 0,
     cpc |-> "idle", ctail |-> 0, chead |-> 0, cnt |-> 0, published |-> {}]

Fine == IF last.op = "fine" THEN last ELSE FineIdle

\* What a statement of either task leaves alone besides what it names.
FineKeeps == UNCHANGED <<rxVars, isr_events, dmaTxIdx, dmaTxActive, stack>>

\* A producer that writes the flags word first and the rest after it.
SendAfter_FlagsFirst(stage) ==
    CASE stage = "take" -> "flags"
      [] stage = "flags" -> "buffer"
      [] stage = "buffer" -> "address"
      [] stage = "address" -> "head"
      [] stage = "head" -> "start"

\* The order of the producer's statements once the length is accepted: the
\* semaphore, pxDMA_tx_buffers[ head ], the address word, the flags word,
\* txHead, and past the dsb() the write of START_TX.
SendAfter(stage) ==
    CASE stage = "take" -> "buffer"
      [] stage = "buffer" -> "address"
      [] stage = "address" -> "flags"
      [] stage = "flags" -> "head"
      [] stage = "head" -> "start"

\* The producer returns: its locals are gone.
SendReturned(t) ==
    [t EXCEPT !.spc = "idle", !.shead = 0, !.sbuf = NULL, !.slen = 0]

\* The driver task returns: its locals are gone.
CheckTxReturned(t) ==
    [t EXCEPT !.cpc = "idle", !.ctail = 0, !.chead = 0, !.cnt = 0]

\* The stack takes a buffer and calls emacps_send_message: head = txHead,
\* then the length test, which sends the call to the release or on to the
\* semaphore.
SendEnter(xLength) ==
    LET b == pxGetNetworkBufferWithDescriptor(pool)
    IN  /\ Fine.spc = "idle"
        /\ b # NULL
        /\ pool' = PoolTake(pool, b)
        /\ last' = [Fine EXCEPT
                       !.spc = IF xValidLength(xLength) THEN "take"
                               ELSE "release",
                       !.shead = txHead, !.sbuf = b, !.slen = xLength]
        /\ UNCHANGED <<txSegments, pxDMA_tx_buffers, txHead, txTail,
                       xTXDescriptorSemaphore, txBusy, nwctrl, mem,
                       xDataLength>>
        /\ FineKeeps

\* xSemaphoreTake gets a credit.
SendTake ==
    /\ Fine.spc = "take"
    /\ xTXDescriptorSemaphore > 0
    /\ xTXDescriptorSemaphore' = xTXDescriptorSemaphore - 1
    /\ last' = [Fine EXCEPT !.spc = SendAfter("take")]
    /\ UNCHANGED <<txSegments, pxDMA_tx_buffers, txHead, txTail, txBusy,
                   nwctrl, pool, mem, xDataLength>>
    /\ FineKeeps

\* xSemaphoreTake gives up: no credit came within the block time.
SendTimeout ==
    /\ Fine.spc = "take"
    /\ xTXDescriptorSemaphore = 0
    /\ last' = [Fine EXCEPT !.spc = "release"]
    /\ UNCHANGED <<txSegments, pxDMA_tx_buffers, txHead, txTail,
                   xTXDescriptorSemaphore, txBusy, nwctrl, pool, mem,
                   xDataLength>>
    /\ FineKeeps

\* pxDMA_tx_buffers[ head ] = pxBuffer->pucEthernetBuffer
SendStoreBuffer ==
    /\ Fine.spc = "buffer"
    /\ pxDMA_tx_buffers' =
           [pxDMA_tx_buffers EXCEPT ![Fine.shead] = PayloadOf(Fine.sbuf)]
    /\ last' = [Fine EXCEPT !.spc = SendAfter("buffer")]
    /\ UNCHANGED <<txSegments, txHead, txTail, xTXDescriptorSemaphore, txBusy,
                   nwctrl, pool, mem, xDataLength>>
    /\ FineKeeps

\* txSegments[ head ].address = pxDMA_tx_buffers[ head ]
SendStoreAddress ==
    /\ Fine.spc = "address"
    /\ txSegments' = [txSegments EXCEPT
                         ![Fine.shead].address = pxDMA_tx_buffers[Fine.shead]]
    /\ last' = [Fine EXCEPT !.spc = SendAfter("address")]
    /\ UNCHANGED <<pxDMA_tx_buffers, txHead, txTail, xTXDescriptorSemaphore,
                   txBusy, nwctrl, pool, mem, xDataLength>>
    /\ FineKeeps

\* txSegments[ head ].flags = ulFlags: the slot is published.
SendStoreFlags ==
    /\ Fine.spc = "flags"
    /\ txSegments' = [txSegments EXCEPT
                         ![Fine.shead].flags = SendFlags(Fine.shead, Fine.slen)]
    /\ last' = [Fine EXCEPT !.spc = SendAfter("flags"),
                            !.published = @ \cup {Fine.shead}]
    /\ UNCHANGED <<pxDMA_tx_buffers, txHead, txTail, xTXDescriptorSemaphore,
                   txBusy, nwctrl, pool, mem, xDataLength>>
    /\ FineKeeps

\* xemacpsif->txHead = head, after the increment.
SendStoreHead ==
    /\ Fine.spc = "head"
    /\ txHead' = NextTxIndex(Fine.shead)
    /\ last' = [Fine EXCEPT !.spc = SendAfter("head")]
    /\ UNCHANGED <<txSegments, pxDMA_tx_buffers, txTail,
                   xTXDescriptorSemaphore, txBusy, nwctrl, pool, mem,
                   xDataLength>>
    /\ FineKeeps

\* iHasSent is set: txBusy and START_TX, then the return.
SendStartTx ==
    /\ Fine.spc = "start"
    /\ txBusy' = TRUE
    /\ nwctrl' = nwctrl \cup {"STARTTX"}
    /\ last' = SendReturned(Fine)
    /\ UNCHANGED <<txSegments, pxDMA_tx_buffers, txHead, txTail,
                   xTXDescriptorSemaphore, pool, mem, xDataLength>>
    /\ FineKeeps

\* iReleaseAfterSend is still set: the buffer goes back, then the return.
SendRelease ==
    LET newPool == vReleaseNetworkBufferAndDescriptor(pool, Fine.sbuf)
    IN  /\ Fine.spc = "release"
        /\ pool' = newPool
        /\ mem' = Scrub(mem, pool, newPool, NoFrame)
        /\ xDataLength' = Scrub(xDataLength, pool, newPool, 0)
        /\ last' = SendReturned(Fine)
        /\ UNCHANGED <<txSegments, pxDMA_tx_buffers, txHead, txTail,
                       xTXDescriptorSemaphore, txBusy, nwctrl>>
        /\ FineKeeps

\* int tail = xemacpsif->txTail
CheckTxReadTail ==
    /\ Fine.cpc = "idle"
    /\ last' = [Fine EXCEPT !.cpc = "head", !.ctail = txTail]
    /\ UNCHANGED <<txVars, nwctrl, pool, mem, xDataLength>>
    /\ FineKeeps

\* int head = xemacpsif->txHead
CheckTxReadHead ==
    /\ Fine.cpc = "head"
    /\ last' = [Fine EXCEPT !.cpc = "count", !.chead = txHead]
    /\ UNCHANGED <<txVars, nwctrl, pool, mem, xDataLength>>
    /\ FineKeeps

\* uxCount = ipconfigNIC_N_TX_DESC - uxSemaphoreGetCount( ... )
CheckTxReadCount ==
    /\ Fine.cpc = "count"
    /\ last' = [Fine EXCEPT !.cpc = "test",
                            !.cnt = N_TX - xTXDescriptorSemaphore]
    /\ UNCHANGED <<txVars, nwctrl, pool, mem, xDataLength>>
    /\ FineKeeps

\* The test of the while and the break: on to the body, or the return.
CheckTxTest ==
    /\ Fine.cpc = "test"
    /\ last' = IF CheckTxContinue(Fine.cnt, txSegments[Fine.ctail].flags,
                                  Fine.ctail, Fine.chead)
               THEN [Fine EXCEPT !.cpc = "release"]
               ELSE CheckTxReturned(Fine)
    /\ UNCHANGED <<txVars, nwctrl, pool, mem, xDataLength>>
    /\ FineKeeps

\* pvBuffer = pxDMA_tx_buffers[ tail ]; if it is not NULL the entry is
\* cleared and the buffer released.
CheckTxRelease ==
    LET pvBuffer == pxDMA_tx_buffers[Fine.ctail]
        pxBuffer == pxPacketBuffer_to_NetworkBuffer(pvBuffer)
        newPool == IF pvBuffer # NULL /\ pxBuffer # NULL
                   THEN vReleaseNetworkBufferAndDescriptor(pool, pxBuffer)
                   ELSE pool
    IN  /\ Fine.cpc = "release"
        /\ pxDMA_tx_buffers' = [pxDMA_tx_buffers EXCEPT ![Fine.ctail] = NULL]
        /\ pool' = newPool
        /\ mem' = Scrub(mem, pool, newPool, NoFrame)
        /\ xDataLength' = Scrub(xDataLength, pool, newPool, 0)
        /\ last' = [Fine EXCEPT !.cpc = "flags"]
        /\ UNCHANGED <<txSegments, txHead, txTail, xTXDescriptorSemaphore,
                       txBusy, nwctrl>>
        /\ FineKeeps

\* txSegments[ tail ].flags = USED, with WRAP on the last slot.
CheckTxWriteFlags ==
    /\ Fine.cpc = "flags"
    /\ txSegments' = [txSegments EXCEPT
                         ![Fine.ctail].flags = CheckTxFlags(Fine.ctail)]
    /\ last' = [Fine EXCEPT !.cpc = "give"]
    /\ UNCHANGED <<pxDMA_tx_buffers, txHead, txTail, xTXDescriptorSemaphore,
                   txBusy, nwctrl, pool, mem, xDataLength>>
    /\ FineKeeps

\* uxCount--; xSemaphoreGive( ... ): the slot's credit is back.
CheckTxGive ==
    /\ Fine.cpc = "give"
    /\ xTXDescriptorSemaphore' = xSemaphoreGive(xTXDescriptorSemaphore)
    /\ last' = [Fine EXCEPT !.cpc = "tail", !.cnt = @ - 1,
                            !.published = @ \ {Fine.ctail}]
    /\ UNCHANGED <<txSegments, pxDMA_tx_buffers, txHead, txTail, txBusy,
                   nwctrl, pool, mem, xDataLength>>
    /\ FineKeeps

\* xemacpsif->txTail = tail, after the increment; back to the test.
CheckTxWriteTail ==
    /\ Fine.cpc = "tail"
    /\ txTail' = NextTxIndex(Fine.ctail)
    /\ last' = [Fine EXCEPT !.cpc = "test", !.ctail = NextTxIndex(Fine.ctail)]
    /\ UNCHANGED <<txSegments, pxDMA_tx_buffers, txHead,
                   xTXDescriptorSemaphore, txBusy, nwctrl, pool, mem,
                   xDataLength>>
    /\ FineKeeps

\* The producer, the driver task and the DMA, one statement at a time.
NextFine ==
    \/ \E xLength \in FewTxLengths : SendEnter(xLength)
    \/ SendTake
    \/ SendTimeout
    \/ SendStoreBuffer
    \/ SendStoreAddress
    \/ SendStoreFlags
    \/ SendStoreHead
    \/ SendStartTx
    \/ SendRelease
    \/ CheckTxReadTail
    \/ CheckTxReadHead
    \/ CheckTxReadCount
    \/ CheckTxTest
    \/ CheckTxRelease
    \/ CheckTxWriteFlags
    \/ CheckTxGive
    \/ CheckTxWriteTail
    \/ DmaTxComplete /\ UNCHANGED last

SpecFine == Init /\ [][NextFine]_vars

\* C17 as stated: with emacps_send_message and emacps_check_tx interleaved
\* statement by statement, emacps_check_tx clears a tx_buffers entry,
\* rewrites flags or returns a credit only for a slot that is published and
\* completed, and the credits never exceed N_TX minus the number of
\* published slots not yet reclaimed.
C17_AsStated ==
    /\ Fine.cpc \in {"release", "flags", "give"}
           => Fine.ctail \in Fine.published
    /\ Fine.cpc = "release" => txSegments[Fine.ctail].flags.USED
    /\ xTXDescriptorSemaphore <= N_TX - Cardinality(Fine.published)

\* The driver task leaves the test of the while at a slot where its tail
\* equals its head.
CheckTxTestAtHead ==
    /\ Fine.cpc = "test"
    /\ Fine'.cpc # "test"
    /\ Fine.ctail = Fine.chead

\* C18 as stated: at a slot with tail == head and all N_TX slots in flight
\* the walk stops without reclaiming the slot, even if USED is set.
C18_AsStated ==
    [][ (CheckTxTestAtHead /\ Fine.cnt = N_TX) => Fine'.cpc = "idle" ]_vars

\* C18: at a slot with tail == head the walk stops without reclaiming the
\* slot when some but not all slots are in flight (uxCount # N_TX), even if
\* USED is set there; when all N_TX slots are in flight it goes on to
\* reclaim the slot exactly if USED is set.
C18_BreakAtHead ==
    [][ CheckTxTestAtHead
            => /\ Fine.cnt # N_TX => Fine'.cpc = "idle"
               /\ Fine.cnt = N_TX =>
                      (Fine'.cpc = "release"
                           <=> txSegments[Fine.ctail].flags.USED) ]_vars

\* The walk is about to reclaim a slot with tail == head on a full ring.
C18_Witness ==
    /\ Fine.cpc = "release"
    /\ Fine.ctail = Fine.chead
    /\ Fine.cnt = N_TX
    /\ txSegments[Fine.ctail].flags.USED

(* ---------------------------------------------------------------------- *)
(* The TX ring with the publications and the reclaims counted              *)
(* ---------------------------------------------------------------------- *)

\* The sends are counted up to this many publications.
MaxPublished == 6

\* The slots published so far.
Published == IF last.op = "count" THEN last.published ELSE 0

\* The slots reclaimed so far.
Reclaimed == IF last.op = "count" THEN last.reclaimed ELSE 0

\* After emacps_send_message: one more publication if it went through.
CountSend(xLength) ==
    [op |-> "count",
     published |-> Published +
         (IF SendPath(xLength, xTXDescriptorSemaphore) = "publish"
          THEN 1 ELSE 0),
     reclaimed |-> Reclaimed]

\* After emacps_check_tx: as many more reclaims as its loop made passes.
CountCheckTx ==
    [op |-> "count", published |-> Published,
     reclaimed |-> Reclaimed + CheckTxLoop(CheckTxEntry, txHead).n]

\* The TX ring with both counts kept.
NextCount ==
    \/ \E xLength \in TxLengths :
           /\ Published < MaxPublished
           /\ StackSend(xLength)
           /\ last' = CountSend(xLength)
    \/ emacps_check_tx /\ last' = CountCheckTx
    \/ DmaTxComplete /\ UNCHANGED last

SpecCount == Init /\ [][NextCount]_vars

C20_WrapOnLast ==
    /\ \A i \in TxSlots :
           txSegments[i].flags.USED /\ pxDMA_tx_buffers[i] = NULL
    /\ [] (\A i \in TxSlots : txSegments[i].flags.WRAP <=> i = N_TX - 1)

\* Slot 0 is in use with another buffer than the one its first frame had
\* (the lowest free one), so the ring has been gone round; every slot is
\* published and the last one is not yet sent.
C20_Witness ==
    /\ pxDMA_tx_buffers[0] # NULL
    /\ pxDMA_tx_buffers[0] # PayloadOf(N_RX + 1)
    /\ ~txSegments[N_TX - 1].flags.USED
    /\ txSegments[N_TX - 1].flags.WRAP
    /\ Fine.published = TxSlots

(* ---------------------------------------------------------------------- *)
(* The producer statement by statement, the driver task call by call       *)
(* ---------------------------------------------------------------------- *)

\* emacps_send_message one statement at a time against the DMA, with
\* emacps_check_tx run as a whole between the producer's statements.
NextOrder ==
    \/ \E xLength \in TxLengths : SendEnter(xLength)
    \/ SendTake
    \/ SendTimeout
    \/ SendStoreBuffer
    \/ SendStoreAddress
    \/ SendStoreFlags
    \/ SendStoreHead
    \/ SendStartTx
    \/ SendRelease
    \/ emacps_check_tx /\ last' = Fine
    \/ DmaTxComplete /\ last' = Fine

SpecOrder == Init /\ [][NextOrder]_vars

\* The buffer whose payload a descriptor's address word points to.
TxAddressed(i) == pxPacketBuffer_to_NetworkBuffer(txSegments[i].address)

\* The descriptor the producer is publishing carries its buffer and length.
SendDescriptorComplete ==
    /\ txSegments[Fine.shead].address = PayloadOf(Fine.sbuf)
    /\ pxDMA_tx_buffers[Fine.shead] = PayloadOf(Fine.sbuf)
       \/ txSegments[Fine.shead].flags.USED
    /\ txSegments[Fine.shead].flags.LEN = Fine.slen % TxLenField
       \/ txSegments[Fine.shead].flags = CheckTxFlags(Fine.shead)

CacheRange(adr, len) == [from |-> adr, len |-> len]

NoRange == CacheRange(0, 0)

\* The driver task in emacps_check_rx: its place (pc), its locals head,
\* pxBuffer (buf) and pxNewBuffer (new), the chain built so far from
\* pxFirstDescriptor through pxNextBuffer (batch) and msgCount; and the
\* ranges invalidated in this pass of the loop, for the frame taken out
\* (inval) and for the buffer posted (posted).
RxIdle ==
    [op |-> "rx", pc |-> "idle", head |-> 0, buf |-> NULL, new |-> NULL,
     batch |-> <<>>, msgCount |-> 0, inval |-> NoRange, posted |-> NoRange]

RxTask == IF last.op = "rx" THEN last ELSE RxIdle

\* A loop body that clears the descriptor first and reads the length last.
CheckRxAfter_LengthLast(stage) ==
    CASE stage = "swap" -> "zero"
      [] stage = "zero" -> "address"
      [] stage = "address" -> "length"
      [] stage = "length" -> "next"

\* The order of the loop body for a frame that is passed on: the buffers
\* are swapped, rx_bytes is read from the flags word, the flags word is
\* zeroed, the address word is written with NEW clear, head moves on.
CheckRxAfter(stage) ==
    CASE stage = "swap" -> "length"
      [] stage = "length" -> "zero"
      [] stage = "zero" -> "address"
      [] stage = "address" -> "next"

\* int head = xemacpsif->rxHead, and resetrx_on_no_rxdata.
RxEnter ==
    /\ RxTask.pc = "idle"
    /\ resetrx_on_no_rxdata
    /\ last' = [RxIdle EXCEPT !.pc = "test", !.head = rxHead]
    /\ UNCHANGED <<rxSegments, pxDMA_rx_buffers, rxHead, dmaRxIdx, isr_events,
                   pool, stack, mem, xDataLength>>
    /\ UNCHANGED txVars

\* The test at the top of the for( ; ; ): NEW clear or no buffer ends it.
RxTest ==
    /\ RxTask.pc = "test"
    /\ last' = IF CheckRxContinue(rxSegments[RxTask.head].address,
                                  pxDMA_rx_buffers[RxTask.head])
               THEN [RxTask EXCEPT !.pc = "swap",
                                   !.buf = pxDMA_rx_buffers[RxTask.head]]
               ELSE [RxTask EXCEPT !.pc = "pass"]
    /\ UNCHANGED <<rxVars, isr_events, nwctrl, pool, stack, mem, xDataLength>>
    /\ UNCHANGED txVars

\* The filter and the replacement: with a new buffer it goes into
\* pxDMA_rx_buffers[ head ]; without one the old buffer stays and the frame
\* is dropped.
RxSwap ==
    LET got == RxNewBuffer(xMayAcceptPacket(mem[RxTask.buf]), pool)
    IN  /\ RxTask.pc = "swap"
        /\ IF got = NULL
           THEN /\ last' = [RxTask EXCEPT !.pc = "zero", !.new = RxTask.buf]
                /\ UNCHANGED <<pxDMA_rx_buffers, pool>>
           ELSE /\ last' = [RxTask EXCEPT !.pc = CheckRxAfter("swap"),
                                          !.new = got]
                /\ pxDMA_rx_buffers' =
                       [pxDMA_rx_buffers EXCEPT ![RxTask.head] = got]
                /\ pool' = PoolTake(pool, got)
        /\ UNCHANGED <<rxSegments, rxHead, last_rx_frms_cntr, rxcnt, dmaRxIdx,
                       isr_events, nwctrl, stack, mem, xDataLength>>
        /\ UNCHANGED txVars

\* rx_bytes = flags & XEMACPS_RXBUF_LEN_MASK; pxBuffer->xDataLength =
\* rx_bytes; rx_bytes bytes from two bytes before the payload are
\* invalidated; the buffer is added to the chain; msgCount++.
RxLength ==
    /\ RxTask.pc = "length"
    /\ xDataLength' = [xDataLength EXCEPT
                          ![RxTask.buf] = RxBytes(rxSegments[RxTask.head].flags)]
    /\ last' = [RxTask EXCEPT
                   !.pc = CheckRxAfter("length"),
                   !.batch = Append(@, RxTask.buf),
                   !.msgCount = @ + 1,
                   !.inval = CacheRange(
                       PayloadOf(RxTask.buf) - ipconfigPACKET_FILLER_SIZE,
                       RxBytes(rxSegments[RxTask.head].flags))]
    /\ UNCHANGED <<rxVars, isr_events, nwctrl, pool, stack, mem>>
    /\ UNCHANGED txVars

\* The whole of pxNewBuffer is invalidated from two bytes before its
\* payload; xemacpsif->rxSegments[ head ].flags = 0
RxZeroFlags ==
    /\ RxTask.pc = "zero"
    /\ rxSegments' = [rxSegments EXCEPT ![RxTask.head].flags = 0]
    /\ last' = [RxTask EXCEPT
                   !.pc = CheckRxAfter("zero"),
                   !.posted = CacheRange(
                       PayloadOf(RxTask.new) - ipconfigPACKET_FILLER_SIZE,
                       dmaRX_TX_BUFFER_SIZE)]
    /\ UNCHANGED <<pxDMA_rx_buffers, rxHead, last_rx_frms_cntr, rxcnt,
                   dmaRxIdx, isr_events, nwctrl, pool, stack, mem, xDataLength>>
    /\ UNCHANGED txVars

\* xemacpsif->rxSegments[ head ].address = addr: NEW is cleared and the slot
\* is the DMA's again; what the posted buffer held is of no use any more.
RxAddress ==
    /\ RxTask.pc = "address"
    /\ rxSegments' = [rxSegments EXCEPT ![RxTask.head].address =
                         RxSlotAddress(RxTask.new, RxTask.head)]
    /\ mem' = [mem EXCEPT ![RxTask.new] = NoFrame]
    /\ last' = [RxTask EXCEPT !.pc = CheckRxAfter("address")]
    /\ UNCHANGED <<pxDMA_rx_buffers, rxHead, last_rx_frms_cntr, rxcnt,
                   dmaRxIdx, isr_events, nwctrl, pool, stack, xDataLength>>
    /\ UNCHANGED txVars

\* if( ++head == ipconfigNIC_N_RX_DESC ) head = 0; rxHead = head
RxNext ==
    /\ RxTask.pc = "next"
    /\ rxHead' = NextRxIndex(RxTask.head)
    /\ last' = [RxTask EXCEPT !.pc = "test", !.head = NextRxIndex(RxTask.head),
                              !.buf = NULL, !.new = NULL,
                              !.inval = NoRange, !.posted = NoRange]
    /\ UNCHANGED <<rxSegments, pxDMA_rx_buffers, last_rx_frms_cntr, rxcnt,
                   dmaRxIdx, isr_events, nwctrl, pool, stack, mem, xDataLength>>
    /\ UNCHANGED txVars

\* After the loop: the chain, if there is one, goes to prvPassEthMessages;
\* return msgCount.
RxPass(xSendOk) ==
    LET passed == IF RxTask.batch # <<>>
                  THEN prvPassEthMessages(RxTask.batch, pool, stack, xSendOk)
                  ELSE [pool |-> pool, stack |-> stack]
    IN  /\ RxTask.pc = "pass"
        /\ pool' = passed.pool
        /\ stack' = passed.stack
        /\ mem' = Scrub(mem, pool, passed.pool, NoFrame)
        /\ xDataLength' = Scrub(xDataLength, pool, passed.pool, 0)
        /\ last' = RxIdle
        /\ UNCHANGED <<rxVars, isr_events, nwctrl>>
        /\ UNCHANGED txVars

\* The frames counted between two reads of the frames counter are followed
\* up to this many.
MaxRxCount == 3

\* The driver task one statement at a time, the DMA filling every slot
\* whose NEW bit is clear, the stack releasing what it was given; the pool
\* has two buffers more than the RX ring holds.
NextRxFine ==
    \/ RxEnter
    \/ RxTest
    \/ RxSwap
    \/ RxLength
    \/ RxZeroFlags
    \/ RxAddress
    \/ RxNext
    \/ \E xSendOk \in BOOLEAN : RxPass(xSendOk)
    \/ \E f \in RxFrames :
           rxcnt < MaxRxCount /\ DmaRxArrive(f) /\ last' = RxTask
    \/ \E b \in Buffers : StackRelease(b) /\ last' = RxTask

SpecRxFine == InitWith(NBuf - 1) /\ [][NextRxFine]_vars

\* The length of the frame whose header is h.
FrameLength(h) == (CHOOSE f \in RxFrames : f.hdr = h).len

\* C22: rx_bytes is read while NEW is still set in the slot and the flags
\* word still holds what the DMA wrote for the frame in pxBuffer; and every
\* buffer in the chain or with the stack has as xDataLength the length the
\* DMA wrote for the frame it holds.
C22_LengthBeforeRelease ==
    [][ /\ (RxTask.pc = "length" /\ RxTask'.pc # "length")
            => /\ RxNew(rxSegments[RxTask.head].address)
               /\ rxSegments[RxTask.head].flags
                      = DmaRxStatus(FrameLength(mem[RxTask.buf]))
        /\ \A b \in stack' \cup SeqSet(RxTask'.batch) :
               xDataLength'[b] = FrameLength(mem'[b]) ]_vars

\* The stack holds a frame whose slot the DMA has filled again, with a frame
\* of another length, before emacps_check_rx returned.
C22_Witness ==
    /\ RxTask.pc = "pass"
    /\ \E b \in SeqSet(RxTask.batch) : \E i \in RxSlots :
           /\ RxNew(rxSegments[i].address)
           /\ pxDMA_rx_buffers[i] # b
           /\ RxBytes(rxSegments[i].flags) # xDataLength[b]
           /\ RxTask.head # i
    /\ Len(RxTask.batch) = N_RX

\* The filter reads the frame in pxBuffer: the step out of "swap".
RxFrameRead == RxTask.pc = "swap" /\ RxTask'.pc # "swap"

\* NEW is cleared in the slot: the step out of "address".
RxNewCleared == RxTask.pc = "address" /\ RxTask'.pc # "address"

\* C23 as stated, for the RX ring: when emacps_check_rx first reads the
\* bytes of a received frame, the frame's buffer has been invalidated over
\* exactly the frame's length from two bytes before the payload; and when
\* NEW is cleared in a slot, the buffer in the slot has been invalidated.
C23_AsStated ==
    [][ /\ RxFrameRead
            => RxTask.inval =
                   CacheRange(PayloadOf(RxTask.buf) - ipconfigPACKET_FILLER_SIZE,
                              RxBytes(rxSegments[RxTask.head].flags))
        /\ RxNewCleared
            => /\ RxTask.posted.from =
                      PayloadOf(pxDMA_rx_buffers[RxTask.head])
                          - ipconfigPACKET_FILLER_SIZE
               /\ RxTask.posted.len = dmaRX_TX_BUFFER_SIZE ]_vars

(* ---------------------------------------------------------------------- *)
(* TX liveness                                                             *)
(* ---------------------------------------------------------------------- *)

\* The TX ring with a DMA that completes every descriptor it is given, each
\* completion raising the TX-done interrupt, and a driver task that runs
\* emacps_check_tx whenever there is something for it to reclaim.
SpecTxLive ==
    /\ SpecTx
    /\ WF_vars(DmaTxComplete /\ last' = Env)
    /\ WF_vars(emacps_check_tx /\ last' = CheckTxTrace)

\* Buffer b is held by TX slot i.
TxHolds(i, b) == pxDMA_tx_buffers[i] = PayloadOf(b)

IsrIdle == [op |-> "isr", handle |-> NULL, irq |-> "none", given |-> 0]

Isr == IF last.op = "isr" THEN last ELSE IsrIdle

\* if( xEMACTaskHandles[ xEMACIndex ] != NULL ) vTaskNotifyGiveFromISR( ... ):
\* the number of notifications given.
vTaskNotifyGiveFromISR(handle) == IF handle # NULL THEN 1 ELSE 0

\* The handler's notification, after the event bit is set.
IsrNotifies(irq) ==
    last' = [Isr EXCEPT !.irq = irq,
                        !.given = vTaskNotifyGiveFromISR(Isr.handle)]

\* A step of the tasks: no handler, no notification.
IsrQuiet == last' = [Isr EXCEPT !.irq = "none", !.given = 0]

\* The driver task is created and its handle stored.
RegisterTask ==
    /\ Isr.handle = NULL
    /\ last' = [Isr EXCEPT !.handle = 1, !.irq = "none", !.given = 0]
    /\ UNCHANGED <<txVars, rxVars, isr_events, nwctrl, pool, stack, mem,
                   xDataLength>>

\* The driver task, woken, finds event bit e set and clears it, in one
\* uninterrupted test-and-clear.
TaskClears(e) ==
    /\ Isr.handle # NULL
    /\ e \in isr_events
    /\ isr_events' = isr_events \ {e}
    /\ last' = [Isr EXCEPT !.irq = "clear", !.given = 0]
    /\ UNCHANGED <<txVars, rxVars, nwctrl, pool, stack, mem, xDataLength>>

\* The handlers between the calls of the stack and of the driver task.
NextIsr ==
    \/ \E xLength \in FewTxLengths : StackSend(xLength) /\ IsrQuiet
    \/ emacps_check_tx /\ IsrQuiet
    \/ \E xSendOk \in BOOLEAN : emacps_check_rx(xSendOk) /\ IsrQuiet
    \/ DmaTxComplete /\ IsrNotifies("tx")
    \/ \E f \in FewRxFrames : DmaRxArrive(f) /\ IsrNotifies("rx")
    \/ \E b \in Buffers : StackRelease(b) /\ IsrQuiet
    \/ RegisterTask
    \/ \E e \in {"TX", "RX"} : TaskClears(e)

SpecIsr == InitWith(NBuf - 2) /\ [][NextIsr]_vars

\* The bits of isr_events other than e are after the step what they were.
OthersKept(e) == isr_events' \ {e} = isr_events \ {e}

\* C25: a handler sets its own event bit, with or without a driver task
\* handle, leaves the other bit as it was and notifies the driver task once
\* exactly when the handle exists; the TX handler clears txBusy and the RX
\* handler leaves it; and a bit that is set stays set through every step
\* but the driver task's clearing of that bit.
C25_EventsKept ==
    [][ /\ Isr'.irq = "tx"
            => /\ "TX" \in isr_events' /\ OthersKept("TX")
               /\ txBusy' = FALSE
               /\ Isr'.given = (IF Isr.handle # NULL THEN 1 ELSE 0)
        /\ Isr'.irq = "rx"
            => /\ "RX" \in isr_events' /\ OthersKept("RX")
               /\ txBusy' = txBusy
               /\ Isr'.given = (IF Isr.handle # NULL THEN 1 ELSE 0)
        /\ Isr'.irq = "none" => isr_events' = isr_events /\ Isr'.given = 0
        /\ Isr'.irq = "clear"
            => \E e \in isr_events : isr_events' = isr_events \ {e} ]_vars

\* The RX handler has run without a driver task handle, after a TX-done
\* event and while a later frame is being sent: both bits are set, txBusy
\* is left set and no notification was given.
C25_Witness ==
    /\ Isr.irq = "rx"
    /\ Isr.handle = NULL
    /\ Isr.given = 0
    /\ isr_events = {"TX", "RX"}
    /\ txBusy

(* ---------------------------------------------------------------------- *)
(* clean_dma_txdescs on a ring in use                                      *)
(* ---------------------------------------------------------------------- *)

\* clean_dma_txdescs, as init_dma calls it: every descriptor gets a NULL
\* address and USED (WRAP on the last), every pxDMA_tx_buffers entry NULL.
\* Nothing is released, and the semaphore, which init_dma creates only when
\* there is none yet, txHead and txTail stay what they are.
clean_dma_txdescs ==
    /\ txSegments' = CleanTxSegments
    /\ pxDMA_tx_buffers' = CleanTxBuffers
    /\ UNCHANGED <<txHead, txTail, xTXDescriptorSemaphore, txBusy, dmaTxIdx,
                   dmaTxActive, isr_events, nwctrl, pool, stack, mem,
                   xDataLength>>
    /\ UNCHANGED rxVars

\* The TX ring, with init_dma called again at any time.
NextClean ==
    \/ \E xLength \in TxLengths : StackSend(xLength) /\ last' = SendTrace(xLength)
    \/ emacps_check_tx /\ last' = CheckTxTrace
    \/ DmaTxComplete /\ last' = Env
    \/ clean_dma_txdescs /\ last' = Last("clean", 0, "none", 0, <<>>)

SpecClean == Init /\ [][NextClean]_vars

\* The TX slots that hold a buffer.
TxHeld(bufs) == {i \in TxSlots : bufs[i] # NULL}

\* C26 as stated: a run of clean_dma_txdescs returns to the pool the buffer
\* of every entry it sets to NULL, and after it the credit count is N_TX
\* less the number of slots in flight.
C26_AsStated ==
    [][ last'.op = "clean"
            => /\ \A i \in TxHeld(pxDMA_tx_buffers) :
                      pool'[pxPacketBuffer_to_NetworkBuffer(
                                pxDMA_tx_buffers[i])] = 1
               /\ xTXDescriptorSemaphore'
                      = N_TX - Cardinality(TxHeld(pxDMA_tx_buffers')) ]_vars

====
